---- MODULE Spec2Model ----
(***************************************************************************)
(* Network algorithms: maximum flow and minimum cost flow solvers.         *)
(*                                                                         *)
(* A graph is built with add_node / add_supply / add_directed_edge and is  *)
(* then handed to one solver.  Every solve() call is one step of the state *)
(* machine; the algorithms are written as recursive operators that follow  *)
(* the control flow of the Rust functions they are named after.            *)
(*                                                                         *)
(* Vec<T> is modelled as a function with domain 0..len-1, so that node     *)
(* ids, edge ids and CSR indices are the same numbers as in the program.   *)
(***************************************************************************)
EXTENDS Integers, Sequences, FiniteSets, TLC

\* ------------------------------------------------------------------ bounds
MaxNodes == 3
MaxEdges == 3
MaxCap == 2
MaxAlpha == 1
MCFMaxNodes == 2
MCFMaxEdges == 2
MaxSupply == 1
MaxLower == 1
MCFMaxCap == 2
MaxCost == 1

\* usize::MAX, the "no node / no edge" marker of the program
NONE == -1

\* bound on the number of iterations of any loop of a solver; a solver that
\* needs more is reported as "Diverge"
Fuel == 60

\* mf and mcf are the two graphs a caller builds and solves, source and sink
\* the arguments of the maximum-flow solve, solver the algorithm that ran and
\* status what it returned.  calls records the arguments of every
\* add_directed_edge call the minimum-cost-flow graph accepted, by edge id.
\* kept is the object a caller keeps between two calls (a network simplex
\* solver, or the CSR the CSR operations are called on), budget the number of
\* solve calls the caller still makes, and observed what the caller saw of the
\* last operation: the value add_directed_edge returned, or, for solve, whether
\* the kept solver was used again and the trace of the inner calls
\* (find_entering_edge of a pivot rule, the iterations of EdmondsKarp).
VARIABLES mf, mcf, calls, source, sink, solver, status, kept, budget, observed

vars == <<mf, mcf, calls, source, sink, solver, status, kept, budget, observed>>

\* ------------------------------------------------------------ Vec helpers
VecLen(v) == Cardinality(DOMAIN v)

VecNew(n, x) == [i \in 0..(n - 1) |-> x]

VecPush(v, x) == [i \in 0..VecLen(v) |-> IF i \in DOMAIN v THEN v[i] ELSE x]

\* Vec::resize keeps the first n old elements and pads with x
VecResize(v, n, x) == [i \in 0..(n - 1) |-> IF i \in DOMAIN v THEN v[i] ELSE x]

Min(a, b) == IF a < b THEN a ELSE b

Max(a, b) == IF a > b THEN a ELSE b

\* --------------------------------------------------- maximum_flow::graph
MFGraphDefault == [num_nodes |-> 0, num_edges |-> 0, edges |-> <<>>, excesses |-> <<>>]

mf_add_node(g) ==
    [g EXCEPT !.excesses = VecPush(g.excesses, 0), !.num_nodes = g.num_nodes + 1]

\* add_directed_edge looking at the tail of the edge only
mf_add_directed_edge_head_unchecked(g, from, to, upper) ==
    IF from >= g.num_nodes
    THEN g
    ELSE [g EXCEPT !.edges = VecPush(g.edges, [from |-> from, to |-> to, flow |-> 0, upper |-> upper]),
                   !.num_edges = g.num_edges + 1]

\* returns the graph unchanged when an endpoint is not a node (None)
mf_add_directed_edge(g, from, to, upper) ==
    IF from >= g.num_nodes \/ to >= g.num_nodes
    THEN g
    ELSE [g EXCEPT !.edges = VecPush(g.edges, [from |-> from, to |-> to, flow |-> 0, upper |-> upper]),
                   !.num_edges = g.num_edges + 1]

\* the Option<usize> add_directed_edge returns: None is the empty tuple,
\* Some(id) the tuple <<id>>, id being num_edges - 1 after the push
mf_add_directed_edge_result(g, from, to, upper) ==
    IF from >= g.num_nodes \/ to >= g.num_nodes
    THEN <<>>
    ELSE <<mf_add_directed_edge(g, from, to, upper).num_edges - 1>>

\* Option<Edge<Flow>>: None is the empty tuple, Some(edge) the tuple <<edge>>
mf_get_edge(g, edge_id) ==
    IF edge_id >= VecLen(g.edges) THEN <<>> ELSE <<g.edges[edge_id]>>

RECURSIVE mf_maximum_flow_fold(_, _, _, _)
mf_maximum_flow_fold(g, src, edge_index, flow) ==
    IF edge_index >= g.num_edges THEN flow
    ELSE LET edge == mf_get_edge(g, edge_index)[1]
         IN  mf_maximum_flow_fold(g, src, edge_index + 1,
                 IF edge.from = src THEN flow + edge.flow
                 ELSE IF edge.to = src THEN flow - edge.flow
                 ELSE flow)

maximum_flow(g, src) == mf_maximum_flow_fold(g, src, 0, 0)

\* ----------------------------------------------------- maximum_flow::csr
MFCSRDefault ==
    [num_nodes |-> 0, num_edges |-> 0, edge_index_to_inside_edge_index |-> <<>>,
     start |-> <<>>, inside_edge_list |-> <<>>, distances |-> <<>>]

\* a residual capacity that is one unit too large
residual_capacity_one_too_many(e) == e.upper - e.flow + 1

residual_capacity(e) == e.upper - e.flow

RECURSIVE mf_degree(_, _, _)
mf_degree(edges, i, degree) ==
    IF i >= VecLen(edges) THEN degree
    ELSE LET d1 == [degree EXCEPT ![edges[i].to] = @ + 1]
         IN  mf_degree(edges, i + 1, [d1 EXCEPT ![edges[i].from] = @ + 1])

RECURSIVE mf_prefix(_, _, _, _)
mf_prefix(start, degree, i, n) ==
    IF i > n THEN start
    ELSE mf_prefix([start EXCEPT ![i] = @ + start[i - 1] + degree[i - 1]], degree, i + 1, n)

RECURSIVE mf_fill(_, _, _, _)
mf_fill(c, edges, edge_index, counter) ==
    IF edge_index >= VecLen(edges) THEN c
    ELSE LET e == edges[edge_index]
             u == e.from
             v == e.to
             inside_edge_index_u == c.start[u] + counter[u]
             counter1 == [counter EXCEPT ![u] = @ + 1]
             inside_edge_index_v == c.start[v] + counter1[v]
             counter2 == [counter1 EXCEPT ![v] = @ + 1]
             l1 == [c.inside_edge_list EXCEPT ![inside_edge_index_u] =
                        [to |-> v, flow |-> 0, upper |-> e.upper, rev |-> inside_edge_index_v]]
             l2 == [l1 EXCEPT ![inside_edge_index_v] =
                        [to |-> u, flow |-> e.upper, upper |-> e.upper, rev |-> inside_edge_index_u]]
         IN  mf_fill([c EXCEPT !.edge_index_to_inside_edge_index[edge_index] = inside_edge_index_u,
                               !.inside_edge_list = l2],
                     edges, edge_index + 1, counter2)

\* CSR::build on the solver's CSR `self`
mf_build(self, g) ==
    LET n == g.num_nodes
        m == g.num_edges
        c0 == [num_nodes |-> n, num_edges |-> m,
               edge_index_to_inside_edge_index |-> VecResize(self.edge_index_to_inside_edge_index, m, NONE),
               start |-> VecResize(self.start, n + 1, 0),
               inside_edge_list |-> VecNew(2 * m, [to |-> 0, flow |-> 0, upper |-> 0, rev |-> 0]),
               distances |-> VecResize(self.distances, n, n)]
        degree == mf_degree(g.edges, 0, VecNew(n, 0))
        c1 == [c0 EXCEPT !.start = mf_prefix(c0.start, degree, 1, n)]
    IN  mf_fill(c1, g.edges, 0, VecNew(n, 0))

mf_set_flow(c, g) ==
    [g EXCEPT !.edges = [edge_id \in DOMAIN g.edges |->
        [g.edges[edge_id] EXCEPT !.flow = c.inside_edge_list[c.edge_index_to_inside_edge_index[edge_id]].flow]]]

\* push_flow that leaves the reverse arc as it is
mf_push_flow_reverse_untouched(c, inside_edge_index, flow) ==
    [c EXCEPT !.inside_edge_list[inside_edge_index].flow = @ + flow]

mf_push_flow(c, inside_edge_index, flow) ==
    LET rev == c.inside_edge_list[inside_edge_index].rev
        added(i) == IF i = inside_edge_index THEN flow ELSE 0
        taken(i) == IF i = rev THEN flow ELSE 0
    IN  [c EXCEPT !.inside_edge_list =
            [i \in DOMAIN c.inside_edge_list |->
                [c.inside_edge_list[i] EXCEPT !.flow = @ + added(i) - taken(i)]]]

\* ----------------------------------------- maximum_flow::ford_fulkerson
RECURSIVE ford_fulkerson_dfs(_, _, _, _, _)
RECURSIVE ford_fulkerson_dfs_edges(_, _, _, _, _, _)
\* result: d is the pushed amount or NONE
ford_fulkerson_dfs(c, u, snk, flow, visited) ==
    IF u = snk THEN [d |-> flow, csr |-> c, visited |-> visited]
    ELSE ford_fulkerson_dfs_edges(c, u, snk, flow, [visited EXCEPT ![u] = TRUE], c.start[u])

ford_fulkerson_dfs_edges(c, u, snk, flow, visited, edge_id) ==
    IF edge_id >= c.start[u + 1] THEN [d |-> NONE, csr |-> c, visited |-> visited]
    ELSE LET edge == c.inside_edge_list[edge_id]
         IN  IF visited[edge.to] \/ residual_capacity(edge) = 0
             THEN ford_fulkerson_dfs_edges(c, u, snk, flow, visited, edge_id + 1)
             ELSE LET r == ford_fulkerson_dfs(c, edge.to, snk, Min(flow, residual_capacity(edge)), visited)
                  IN  IF r.d # NONE
                      THEN [d |-> r.d, csr |-> mf_push_flow(r.csr, edge_id, r.d), visited |-> r.visited]
                      ELSE ford_fulkerson_dfs_edges(r.csr, u, snk, flow, r.visited, edge_id + 1)

RECURSIVE mf_sum_upper(_, _, _)
mf_sum_upper(c, i, hi) ==
    IF i >= hi THEN 0 ELSE c.inside_edge_list[i].upper + mf_sum_upper(c, i + 1, hi)

\* a main loop that stops after the first augmenting path
ford_fulkerson_loop_single_path(c, src, snk, upper, fuel) ==
    LET r == ford_fulkerson_dfs(c, src, snk, upper, VecNew(c.num_nodes, FALSE))
    IN  [status |-> "Optimal", csr |-> r.csr]

RECURSIVE ford_fulkerson_loop(_, _, _, _, _)
ford_fulkerson_loop(c, src, snk, upper, fuel) ==
    IF fuel = 0 THEN [status |-> "Diverge", csr |-> c]
    ELSE LET r == ford_fulkerson_dfs(c, src, snk, upper, VecNew(c.num_nodes, FALSE))
         IN  IF r.d # NONE THEN ford_fulkerson_loop(r.csr, src, snk, upper, fuel - 1)
             ELSE [status |-> "Optimal", csr |-> r.csr]

ford_fulkerson_solve(self, src, snk, g) ==
    LET c == mf_build(self, g)
        upper == mf_sum_upper(c, c.start[src], c.start[src + 1])
        r == ford_fulkerson_loop(c, src, snk, upper, Fuel)
    IN  IF r.status = "Optimal"
        THEN [status |-> "Optimal", graph |-> mf_set_flow(r.csr, g), csr |-> r.csr]
        ELSE [status |-> r.status, graph |-> g, csr |-> r.csr]

\* -------------------------------- maximum_flow::csr (distance labels)
\* the inner `for e in inside_edge_list[start[v]..start[v + 1]]` of the
\* reverse breadth-first search from the sink
RECURSIVE update_distances_edges(_, _, _, _, _)
update_distances_edges(c, que, src, v, i) ==
    IF i >= c.start[v + 1] THEN [csr |-> c, que |-> que]
    ELSE LET e == c.inside_edge_list[i]
         IN  IF e.flow > 0 /\ c.distances[e.to] = c.num_nodes
             THEN update_distances_edges([c EXCEPT !.distances[e.to] = c.distances[v] + 1],
                                         IF e.to # src THEN Append(que, e.to) ELSE que, src, v, i + 1)
             ELSE update_distances_edges(c, que, src, v, i + 1)

RECURSIVE update_distances_queue(_, _, _)
update_distances_queue(c, que, src) ==
    IF que = <<>> THEN c
    ELSE LET v == Head(que)
             r == update_distances_edges(c, Tail(que), src, v, c.start[v])
         IN  update_distances_queue(r.csr, r.que, src)

update_distances(c, src, snk) ==
    LET c0 == [c EXCEPT !.distances = [u \in DOMAIN c.distances |-> IF u = snk THEN 0 ELSE c.num_nodes]]
    IN  update_distances_queue(c0, <<snk>>, src)

is_admissible_edge(c, from, i) ==
    /\ residual_capacity(c.inside_edge_list[i]) > 0
    /\ c.distances[from] = c.distances[c.inside_edge_list[i].to] + 1

\* ------------------------------------------- maximum_flow::edmonds_karp
RECURSIVE edmonds_karp_scan(_, _, _, _, _, _)
edmonds_karp_scan(c, u, edge_id, queue, prev, visited) ==
    IF edge_id >= c.start[u + 1] THEN [queue |-> queue, prev |-> prev]
    ELSE LET edge == c.inside_edge_list[edge_id]
         IN  IF visited[edge.to] \/ residual_capacity(edge) = 0
             THEN edmonds_karp_scan(c, u, edge_id + 1, queue, prev, visited)
             ELSE edmonds_karp_scan(c, u, edge_id + 1, Append(queue, edge.to),
                                    [prev EXCEPT ![edge.to] = <<u, edge_id>>], visited)

RECURSIVE edmonds_karp_bfs(_, _, _, _, _)
edmonds_karp_bfs(c, snk, queue, prev, visited) ==
    IF queue = <<>> THEN [prev |-> prev, visited |-> visited]
    ELSE LET u == Head(queue)
             visited1 == [visited EXCEPT ![u] = TRUE]
         IN  IF u = snk THEN [prev |-> prev, visited |-> visited1]
             ELSE LET r == edmonds_karp_scan(c, u, c.start[u], Tail(queue), prev, visited1)
                  IN  edmonds_karp_bfs(c, snk, r.queue, r.prev, visited1)

RECURSIVE edmonds_karp_delta(_, _, _, _, _)
edmonds_karp_delta(c, prev, src, v, delta) ==
    IF v = src THEN delta
    ELSE edmonds_karp_delta(c, prev, src, prev[v][1],
                            Min(delta, residual_capacity(c.inside_edge_list[prev[v][2]])))

RECURSIVE edmonds_karp_update(_, _, _, _, _)
edmonds_karp_update(c, prev, src, v, delta) ==
    IF v = src THEN c
    ELSE edmonds_karp_update(mf_push_flow(c, prev[v][2], delta), prev, src, prev[v][1], delta)

\* trace records every iteration that augments: the CSR it started from, the
\* prev vector of its search and the amount it pushed
RECURSIVE edmonds_karp_loop(_, _, _, _, _)
edmonds_karp_loop(c, src, snk, fuel, trace) ==
    IF fuel = 0 THEN [status |-> "Diverge", csr |-> c, trace |-> trace]
    ELSE LET r == edmonds_karp_bfs(c, snk, <<src>>, VecNew(c.num_nodes, <<NONE, NONE>>),
                                   VecNew(c.num_nodes, FALSE))
         IN  IF ~r.visited[snk] THEN [status |-> "Optimal", csr |-> c, trace |-> trace]
             ELSE LET delta == edmonds_karp_delta(c, r.prev, src, snk,
                                   residual_capacity(c.inside_edge_list[r.prev[snk][2]]))
                  IN  edmonds_karp_loop(edmonds_karp_update(c, r.prev, src, snk, delta), src, snk, fuel - 1,
                                        Append(trace, [csr |-> c, prev |-> r.prev, delta |-> delta]))

edmonds_karp_solve(self, src, snk, g) ==
    LET r == edmonds_karp_loop(mf_build(self, g), src, snk, Fuel, <<>>)
    IN  IF r.status = "Optimal"
        THEN [status |-> "Optimal", graph |-> mf_set_flow(r.csr, g), csr |-> r.csr, trace |-> r.trace]
        ELSE [status |-> r.status, graph |-> g, csr |-> r.csr, trace |-> r.trace]

\* --------------------------------------------------- maximum_flow::dinic
\* state of the blocking-flow search: the CSR and the current_edge vector
RECURSIVE dinic_dfs(_, _, _, _, _)
RECURSIVE dinic_dfs_edges(_, _, _, _, _, _, _)
dinic_dfs(c, cur, u, snk, upper) ==
    IF u = snk THEN [d |-> upper, csr |-> c, current_edge |-> cur]
    ELSE dinic_dfs_edges(c, cur, u, snk, upper, cur[u], 0)

dinic_dfs_edges(c, cur, u, snk, upper, i, res) ==
    IF i >= c.start[u + 1]
    THEN [d |-> res, csr |-> [c EXCEPT !.distances[u] = c.num_nodes],
          current_edge |-> [cur EXCEPT ![u] = c.start[u + 1]]]
    ELSE LET cur1 == [cur EXCEPT ![u] = i]
             v == c.inside_edge_list[i].to
             rc == residual_capacity(c.inside_edge_list[i])
         IN  IF ~is_admissible_edge(c, u, i)
             THEN dinic_dfs_edges(c, cur1, u, snk, upper, i + 1, res)
             ELSE LET r == dinic_dfs(c, cur1, v, snk, Min(rc, upper - res))
                      c2 == mf_push_flow(r.csr, i, r.d)
                      res2 == res + r.d
                  IN  IF res2 = upper
                      THEN [d |-> res2, csr |-> c2, current_edge |-> r.current_edge]
                      ELSE dinic_dfs_edges(c2, r.current_edge, u, snk, upper, i + 1, res2)

\* a main loop that stops after the first blocking flow
dinic_loop_single_phase(c, cur, src, snk, upper, flow, fuel) ==
    IF ~(flow < upper) THEN [status |-> "Optimal", csr |-> c]
    ELSE LET c1 == update_distances(c, src, snk)
         IN  IF c1.distances[src] >= c1.num_nodes THEN [status |-> "Optimal", csr |-> c1]
             ELSE [status |-> "Optimal",
                   csr |-> dinic_dfs(c1, [u \in DOMAIN cur |-> c1.start[u]], src, snk, upper).csr]

RECURSIVE dinic_loop(_, _, _, _, _, _, _)
dinic_loop(c, cur, src, snk, upper, flow, fuel) ==
    IF fuel = 0 THEN [status |-> "Diverge", csr |-> c]
    ELSE IF ~(flow < upper) THEN [status |-> "Optimal", csr |-> c]
    ELSE LET c1 == update_distances(c, src, snk)
         IN  IF c1.distances[src] >= c1.num_nodes THEN [status |-> "Optimal", csr |-> c1]
             ELSE LET r == dinic_dfs(c1, [u \in DOMAIN cur |-> c1.start[u]], src, snk, upper)
                  IN  dinic_loop(r.csr, r.current_edge, src, snk, upper, flow + r.d, fuel - 1)

dinic_solve(self, src, snk, g) ==
    LET c == mf_build(self, g)
        upper == mf_sum_upper(c, c.start[src], c.start[src + 1])
        r == dinic_loop(c, VecNew(g.num_nodes, 0), src, snk, upper, 0, Fuel)
    IN  IF r.status = "Optimal"
        THEN [status |-> "Optimal", graph |-> mf_set_flow(r.csr, g), csr |-> r.csr]
        ELSE [status |-> r.status, graph |-> g, csr |-> r.csr]

\* ---------------------------------------- maximum_flow::capacity_scaling
RECURSIVE capacity_scaling_bfs_edges(_, _, _, _, _, _)
capacity_scaling_bfs_edges(c, que, src, v, i, delta) ==
    IF i >= c.start[v + 1] THEN [csr |-> c, que |-> que]
    ELSE LET e == c.inside_edge_list[i]
         IN  IF residual_capacity(c.inside_edge_list[e.rev]) >= delta /\ c.distances[e.to] = c.num_nodes
             THEN capacity_scaling_bfs_edges([c EXCEPT !.distances[e.to] = c.distances[v] + 1],
                                             IF e.to # src THEN Append(que, e.to) ELSE que, src, v, i + 1, delta)
             ELSE capacity_scaling_bfs_edges(c, que, src, v, i + 1, delta)

RECURSIVE capacity_scaling_bfs_queue(_, _, _, _)
capacity_scaling_bfs_queue(c, que, src, delta) ==
    LET scanned(r) == capacity_scaling_bfs_queue(r.csr, r.que, src, delta)
    IN  IF que = <<>> THEN c
        ELSE scanned(capacity_scaling_bfs_edges(c, Tail(que), src, Head(que), c.start[Head(que)], delta))

capacity_scaling_bfs(c, src, snk, delta) ==
    LET c0 == [c EXCEPT !.distances = [u \in DOMAIN c.distances |-> IF u = snk THEN 0 ELSE c.num_nodes]]
    IN  capacity_scaling_bfs_queue(c0, <<snk>>, src, delta)

RECURSIVE capacity_scaling_dfs(_, _, _, _, _, _)
RECURSIVE capacity_scaling_dfs_edges(_, _, _, _, _, _, _, _)
capacity_scaling_dfs(c, cur, u, snk, upper, delta) ==
    IF u = snk THEN [d |-> upper, csr |-> c, current_edge |-> cur]
    ELSE capacity_scaling_dfs_edges(c, cur, u, snk, upper, delta, cur[u], 0)

capacity_scaling_dfs_edges(c, cur, u, snk, upper, delta, i, res) ==
    LET rc == residual_capacity(c.inside_edge_list[i])
        pushed(r, c2, res2) ==
            IF res2 = upper
            THEN [d |-> res2, csr |-> c2, current_edge |-> r.current_edge]
            ELSE capacity_scaling_dfs_edges(c2, r.current_edge, u, snk, upper, delta, i + 1, res2)
        found(r) == pushed(r, mf_push_flow(r.csr, i, r.d), res + r.d)
    IN  IF i >= c.start[u + 1]
        THEN [d |-> res, csr |-> [c EXCEPT !.distances[u] = c.num_nodes],
              current_edge |-> [cur EXCEPT ![u] = c.start[u + 1]]]
        ELSE IF ~is_admissible_edge(c, u, i) \/ rc < delta
        THEN capacity_scaling_dfs_edges(c, [cur EXCEPT ![u] = i], u, snk, upper, delta, i + 1, res)
        ELSE found(capacity_scaling_dfs(c, [cur EXCEPT ![u] = i], c.inside_edge_list[i].to, snk,
                                        Min(rc, upper - res), delta))

\* the inner `loop` for one value of delta
RECURSIVE capacity_scaling_phase(_, _, _, _, _, _, _)
capacity_scaling_phase(c, cur, src, snk, upper, delta, fuel) ==
    LET augmented(r) == capacity_scaling_phase(r.csr, r.current_edge, src, snk, upper, delta, fuel - 1)
        labelled(c1) ==
            IF c1.distances[src] >= c1.num_nodes
            THEN [status |-> "Optimal", csr |-> c1, current_edge |-> cur]
            ELSE augmented(capacity_scaling_dfs(c1, [u \in DOMAIN cur |-> c1.start[u]], src, snk, upper, delta))
    IN  IF fuel = 0 THEN [status |-> "Diverge", csr |-> c, current_edge |-> cur]
        ELSE labelled(capacity_scaling_bfs(c, src, snk, delta))

RECURSIVE capacity_scaling_loop(_, _, _, _, _, _)
capacity_scaling_loop(c, cur, src, snk, upper, delta) ==
    LET phased(r) ==
            IF r.status # "Optimal" THEN [status |-> r.status, csr |-> r.csr]
            ELSE capacity_scaling_loop(r.csr, r.current_edge, src, snk, upper, delta \div 2)
    IN  IF ~(delta > 0) THEN [status |-> "Optimal", csr |-> c]
        ELSE phased(capacity_scaling_phase(c, cur, src, snk, upper, delta, Fuel))

RECURSIVE capacity_scaling_max_upper(_, _)
\* iter().map(|e| e.upper).max(): NONE for an empty list
capacity_scaling_max_upper(l, i) ==
    LET larger(rest) == IF rest = NONE THEN l[i].upper ELSE Max(l[i].upper, rest)
    IN  IF i >= VecLen(l) THEN NONE ELSE larger(capacity_scaling_max_upper(l, i + 1))

RECURSIVE capacity_scaling_initial_delta(_, _)
capacity_scaling_initial_delta(delta, max_capacity) ==
    IF delta <= max_capacity THEN capacity_scaling_initial_delta(delta * 2, max_capacity) ELSE delta

capacity_scaling_solve(self, src, snk, g) ==
    LET looped(r) ==
            IF r.status = "Optimal"
            THEN [status |-> "Optimal", graph |-> mf_set_flow(r.csr, g), csr |-> r.csr]
            ELSE [status |-> r.status, graph |-> g, csr |-> r.csr]
        scaled(c, max_capacity) ==
            IF max_capacity = NONE
            THEN \* Option::unwrap() on None
                 [status |-> "Panic", graph |-> g, csr |-> c]
            ELSE looped(capacity_scaling_loop(c, VecNew(c.num_nodes, 0), src, snk,
                                              mf_sum_upper(c, c.start[src], c.start[src + 1]),
                                              capacity_scaling_initial_delta(1, max_capacity) \div 2))
        built(c) == scaled(c, capacity_scaling_max_upper(c.inside_edge_list, 0))
    IN  built(mf_build(self, g))

\* -------------------------------- maximum_flow::shortest_augmenting_path
RECURSIVE shortest_augmenting_path_retreat(_, _, _)
shortest_augmenting_path_retreat(c, u, i) ==
    IF i >= c.start[u + 1] THEN c
    ELSE LET e == c.inside_edge_list[i]
         IN  shortest_augmenting_path_retreat(
                 IF residual_capacity(e) > 0
                 THEN [c EXCEPT !.distances[u] = Min(c.distances[u], c.distances[e.to] + 1)]
                 ELSE c, u, i + 1)

RECURSIVE shortest_augmenting_path_dfs(_, _, _, _, _)
RECURSIVE shortest_augmenting_path_dfs_edges(_, _, _, _, _, _)
shortest_augmenting_path_dfs(c, cur, u, snk, upper) ==
    IF u = snk THEN [d |-> upper, csr |-> c, current_edge |-> cur]
    ELSE shortest_augmenting_path_dfs_edges(c, cur, u, snk, upper, cur[u])

shortest_augmenting_path_dfs_edges(c, cur, u, snk, upper, i) ==
    IF i >= c.start[u + 1]
    THEN [d |-> NONE, current_edge |-> cur,
          csr |-> shortest_augmenting_path_retreat([c EXCEPT !.distances[u] = c.num_nodes], u, c.start[u])]
    ELSE LET cur1 == [cur EXCEPT ![u] = i]
             e == c.inside_edge_list[i]
         IN  IF ~is_admissible_edge(c, u, i)
             THEN shortest_augmenting_path_dfs_edges(c, cur1, u, snk, upper, i + 1)
             ELSE LET r == shortest_augmenting_path_dfs(c, cur1, e.to, snk, Min(upper, residual_capacity(e)))
                  IN  IF r.d # NONE
                      THEN [d |-> r.d, csr |-> mf_push_flow(r.csr, i, r.d), current_edge |-> r.current_edge]
                      ELSE shortest_augmenting_path_dfs_edges(r.csr, r.current_edge, u, snk, upper, i + 1)

RECURSIVE shortest_augmenting_path_loop(_, _, _, _, _, _)
shortest_augmenting_path_loop(c, cur, src, snk, upper, fuel) ==
    IF fuel = 0 THEN [status |-> "Diverge", csr |-> c]
    ELSE IF ~(c.distances[src] < c.num_nodes) THEN [status |-> "Optimal", csr |-> c]
    ELSE LET r == shortest_augmenting_path_dfs(c, [u \in DOMAIN cur |-> c.start[u]], src, snk, upper)
         IN  shortest_augmenting_path_loop(r.csr, r.current_edge, src, snk, upper, fuel - 1)

shortest_augmenting_path_solve(self, src, snk, g) ==
    LET c == update_distances(mf_build(self, g), src, snk)
        upper == mf_sum_upper(c, c.start[src], c.start[src + 1])
        r == shortest_augmenting_path_loop(c, VecNew(c.num_nodes, 0), src, snk, upper, Fuel)
    IN  IF r.status = "Optimal"
        THEN [status |-> "Optimal", graph |-> mf_set_flow(r.csr, g), csr |-> r.csr]
        ELSE [status |-> r.status, graph |-> g, csr |-> r.csr]

\* --------------------------------------- maximum_flow::push_relabel_fifo
\* solver state p: csr, excesses, alpha, relabel_count, active_nodes,
\* current_edge, distance_count; fault becomes "Panic" when a usize would go
\* below 0 or an Option::unwrap() meets None, "Diverge" when the fuel runs out
PushRelabelFIFODefault(alpha) ==
    [csr |-> MFCSRDefault, excesses |-> <<>>, alpha |-> alpha, relabel_count |-> 0,
     active_nodes |-> <<>>, current_edge |-> <<>>, distance_count |-> <<>>, fault |-> "None"]

RECURSIVE push_relabel_count_distances(_, _)
push_relabel_count_distances(p, u) ==
    IF u >= p.csr.num_nodes THEN p
    ELSE push_relabel_count_distances(
             [p EXCEPT !.distance_count[p.csr.distances[u]] = @ + 1,
                       !.current_edge[u] = p.csr.start[u]], u + 1)

RECURSIVE push_relabel_saturate_source(_, _, _)
push_relabel_saturate_source(p, i, hi) ==
    IF i >= hi THEN p
    ELSE LET edge == p.csr.inside_edge_list[i]
             delta == residual_capacity(edge)
         IN  push_relabel_saturate_source(
                 [p EXCEPT !.excesses[edge.to] = @ + delta, !.csr = mf_push_flow(p.csr, i, delta)],
                 i + 1, hi)

RECURSIVE push_relabel_initial_active(_, _, _, _)
push_relabel_initial_active(p, src, snk, u) ==
    IF u >= p.csr.num_nodes THEN p
    ELSE push_relabel_initial_active(
             IF u # src /\ u # snk /\ p.excesses[u] > 0
             THEN [p EXCEPT !.active_nodes = Append(@, u)] ELSE p, src, snk, u + 1)

pre_process(p, src, snk) ==
    LET n == p.csr.num_nodes
        resized == [p EXCEPT !.excesses = VecResize(p.excesses, n, 0),
                             !.current_edge = VecResize(p.current_edge, n, 0),
                             !.distance_count = VecResize(p.distance_count, n + 1, 0)]
        labelled(q) == [q EXCEPT !.csr = [update_distances(q.csr, src, snk) EXCEPT !.distances[src] = n]]
        saturated(q) == push_relabel_saturate_source(q, q.csr.start[src], q.csr.start[src + 1])
    IN  push_relabel_initial_active(
            saturated(push_relabel_count_distances(labelled(resized), 0)), src, snk, 0)

push(p, u, edge_id) ==
    LET to == p.csr.inside_edge_list[edge_id].to
        delta == Min(p.excesses[u], residual_capacity(p.csr.inside_edge_list[edge_id]))
        activate(q, d) == IF q.excesses[to] = d THEN [q EXCEPT !.active_nodes = Append(@, to)] ELSE q
        moved(d) == [p EXCEPT !.csr = mf_push_flow(p.csr, edge_id, d),
                              !.excesses[u] = @ - d, !.excesses[to] = @ + d]
        apply(d) == IF is_admissible_edge(p.csr, u, edge_id) /\ d > 0 THEN activate(moved(d), d) ELSE p
    IN  apply(delta)

RECURSIVE push_relabel_min_distance(_, _, _)
\* min over residual neighbours of distances[edge.to] + 1; NONE when there is none
push_relabel_min_distance(c, i, hi) ==
    IF i >= hi THEN NONE
    ELSE LET edge == c.inside_edge_list[i]
             join(rest) == IF residual_capacity(edge) > 0
                           THEN (IF rest = NONE THEN c.distances[edge.to] + 1
                                 ELSE Min(c.distances[edge.to] + 1, rest))
                           ELSE rest
         IN  join(push_relabel_min_distance(c, i + 1, hi))

relabel(p, u) ==
    LET c == p.csr
        lifted(new_distance) ==
            [p EXCEPT !.relabel_count = @ + 1,
                      !.distance_count = [[@ EXCEPT ![c.distances[u]] = @ - 1] EXCEPT ![new_distance] = @ + 1],
                      !.csr.distances[u] = new_distance]
        apply(m) == IF p.distance_count[c.distances[u]] = 0 \/ m = NONE THEN [p EXCEPT !.fault = "Panic"]
                    ELSE lifted(Min(m, c.num_nodes))
    IN  apply(push_relabel_min_distance(c, c.start[u], c.start[u + 1]))

RECURSIVE gap_relabeling(_, _, _)
gap_relabeling(p, k, u) ==
    IF u >= p.csr.num_nodes \/ p.fault # "None" THEN p
    ELSE IF p.csr.distances[u] >= k
         THEN IF p.distance_count[p.csr.distances[u]] = 0 THEN [p EXCEPT !.fault = "Panic"]
              ELSE LET d == Max(p.csr.distances[u], p.csr.num_nodes)
                   IN  gap_relabeling(
                           [p EXCEPT !.distance_count = [[@ EXCEPT ![p.csr.distances[u]] = @ - 1] EXCEPT ![d] = @ + 1],
                                     !.csr.distances[u] = d], k, u + 1)
         ELSE gap_relabeling(p, k, u + 1)

RECURSIVE discharge_push(_, _, _)
\* the push loop of discharge; done tells that the excess of u was used up
discharge_push(p, u, edge_id) ==
    IF edge_id >= p.csr.start[u + 1] THEN [p |-> p, done |-> FALSE]
    ELSE LET at_edge == [p EXCEPT !.current_edge[u] = edge_id]
             next(q) == IF q.excesses[u] = 0 THEN [p |-> q, done |-> TRUE]
                        ELSE discharge_push(q, u, edge_id + 1)
         IN  next(IF p.excesses[u] > 0 THEN push(at_edge, u, edge_id) ELSE at_edge)

discharge(p, u) ==
    LET lift(q) == IF q.distance_count[q.csr.distances[u]] = 1
                   THEN gap_relabeling(q, q.csr.distances[u], 0)
                   ELSE relabel(q, u)
        requeue(q) == IF q.fault = "None" /\ q.excesses[u] > 0
                      THEN [q EXCEPT !.active_nodes = Append(@, u)] ELSE q
        finish(r) == IF r.done THEN r.p
                     ELSE requeue(lift([r.p EXCEPT !.current_edge[u] = r.p.csr.start[u]]))
    IN  finish(discharge_push(p, u, p.current_edge[u]))

RECURSIVE push_relabel_main(_, _, _, _, _)
\* the while loop of solve; trace records the labels (csr, distance_count)
\* each time the loop tests its condition
push_relabel_main(p, src, snk, fuel, trace) ==
    LET seen == Append(trace,
                       [csr |-> [p.csr EXCEPT !.distances = [u \in DOMAIN @ |-> p.csr.distances[u]]],
                        distance_count |-> [k \in DOMAIN p.distance_count |-> p.distance_count[k]]])
    IN  IF p.fault # "None" THEN [p |-> p, trace |-> trace]
        ELSE IF p.active_nodes = <<>> THEN [p |-> p, trace |-> seen]
        ELSE IF fuel = 0 THEN [p |-> [p EXCEPT !.fault = "Diverge"], trace |-> seen]
        ELSE LET u == Head(p.active_nodes)
                 popped == [p EXCEPT !.active_nodes = Tail(@)]
                 global_relabel(q) ==
                     IF q.fault = "None" /\ q.alpha # 0 /\ q.relabel_count > q.alpha * q.csr.num_nodes
                     THEN [q EXCEPT !.relabel_count = 0, !.csr = update_distances(q.csr, src, snk)]
                     ELSE q
             IN  IF u = src \/ u = snk \/ p.csr.distances[u] >= p.csr.num_nodes
                 THEN push_relabel_main(popped, src, snk, fuel - 1, seen)
                 ELSE push_relabel_main(global_relabel(discharge(popped, u)), src, snk, fuel - 1, seen)

RECURSIVE push_relabel_dfs(_, _, _, _, _, _)
RECURSIVE push_relabel_dfs_edges(_, _, _, _, _, _, _)
push_relabel_dfs(c, cur, u, src, flow, visited) ==
    IF u = src THEN [d |-> flow, csr |-> c, current_edge |-> cur, visited |-> visited]
    ELSE push_relabel_dfs_edges(c, cur, u, src, flow, [visited EXCEPT ![u] = TRUE], cur[u])

push_relabel_dfs_edges(c, cur, u, src, flow, visited, i) ==
    IF i >= c.start[u + 1] THEN [d |-> 0, csr |-> c, current_edge |-> cur, visited |-> visited]
    ELSE LET cur1 == [cur EXCEPT ![u] = i]
             to == c.inside_edge_list[i].to
             rc == residual_capacity(c.inside_edge_list[i])
             back(r) == IF r.d > 0
                        THEN [d |-> r.d, csr |-> mf_push_flow(r.csr, i, r.d),
                              current_edge |-> r.current_edge, visited |-> r.visited]
                        ELSE push_relabel_dfs_edges(r.csr, r.current_edge, u, src, flow, r.visited, i + 1)
         IN  IF visited[to] \/ rc = 0
             THEN push_relabel_dfs_edges(c, cur1, u, src, flow, visited, i + 1)
             ELSE back(push_relabel_dfs(c, cur1, to, src, Min(flow, rc), visited))

\* a second phase that leaves the stranded excess where it is
push_flow_excess_back_to_source_skipped(p, src, snk, u, fuel) == p

RECURSIVE push_flow_excess_back_to_source(_, _, _, _, _)
push_flow_excess_back_to_source(p, src, snk, u, fuel) ==
    IF u >= p.csr.num_nodes THEN p
    ELSE IF u = src \/ u = snk THEN push_flow_excess_back_to_source(p, src, snk, u + 1, fuel)
    ELSE IF ~(p.excesses[u] > 0) THEN push_flow_excess_back_to_source(p, src, snk, u + 1, fuel)
    ELSE IF fuel = 0 THEN [p EXCEPT !.fault = "Diverge"]
    ELSE LET returned(r) == [p EXCEPT !.csr = r.csr, !.current_edge = r.current_edge,
                                      !.excesses = [[@ EXCEPT ![u] = @ - r.d] EXCEPT ![src] = @ + r.d]]
         IN  push_flow_excess_back_to_source(
                 returned(push_relabel_dfs(p.csr, [w \in DOMAIN p.current_edge |-> p.csr.start[w]], u, src,
                                           p.excesses[u], VecNew(p.csr.num_nodes, FALSE))),
                 src, snk, u, fuel - 1)

\* solve answering Optimal, with the graph untouched, where it should refuse
\* its input
push_relabel_fifo_solve_input_not_refused(self, src, snk, g) ==
    LET second_phase(q) == IF q.fault = "None" THEN push_flow_excess_back_to_source(q, src, snk, 0, Fuel) ELSE q
        result(q, trace) ==
            IF q.fault = "None"
            THEN [status |-> "Optimal", graph |-> mf_set_flow(q.csr, g), solver |-> q, trace |-> trace]
            ELSE [status |-> q.fault, graph |-> g, solver |-> q, trace |-> trace]
        finish(m) == result(second_phase(m.p), m.trace)
    IN  IF src >= g.num_nodes \/ snk >= g.num_nodes \/ src = snk
        THEN [status |-> "Optimal", graph |-> g, solver |-> self, trace |-> <<>>]
        ELSE finish(push_relabel_main(
                 pre_process([self EXCEPT !.csr = mf_build(self.csr, g)], src, snk), src, snk, Fuel, <<>>))

push_relabel_fifo_solve(self, src, snk, g) ==
    LET second_phase(q) == IF q.fault = "None" THEN push_flow_excess_back_to_source(q, src, snk, 0, Fuel) ELSE q
        result(q, trace) ==
            IF q.fault = "None"
            THEN [status |-> "Optimal", graph |-> mf_set_flow(q.csr, g), solver |-> q, trace |-> trace]
            ELSE [status |-> q.fault, graph |-> g, solver |-> q, trace |-> trace]
        finish(m) == result(second_phase(m.p), m.trace)
    IN  IF src >= g.num_nodes \/ snk >= g.num_nodes \/ src = snk
        THEN [status |-> "BadInput", graph |-> g, solver |-> self, trace |-> <<>>]
        ELSE finish(push_relabel_main(
                 pre_process([self EXCEPT !.csr = mf_build(self.csr, g)], src, snk), src, snk, Fuel, <<>>))

\* ================================================================ minimum cost flow
\* Option<T>: None is the empty tuple, Some(x) the tuple <<x>>
Some(x) == <<x>>

RECURSIVE VecSum(_, _)
\* iter().fold(0, +) over the elements i.. of a Vec
VecSum(v, i) == IF i >= VecLen(v) THEN 0 ELSE v[i] + VecSum(v, i + 1)

\* BinaryHeap<(Reverse(d), u)>::peek on a heap kept as the set of its
\* entries <<d, u>>: the smallest d, and among equal d the largest u
HeapTop(bh) == CHOOSE x \in bh : \A y \in bh : x[1] < y[1] \/ (x[1] = y[1] /\ x[2] >= y[2])

\* ------------------------------------------------ minimum_cost_flow::graph
MCFGraphDefault ==
    [num_nodes |-> 0, num_edges |-> 0, edges |-> <<>>, b |-> <<>>, lowers |-> <<>>,
     excesses |-> <<>>, is_reversed |-> <<>>]

mcf_add_node(g) ==
    [g EXCEPT !.b = VecPush(@, 0), !.excesses = VecPush(@, 0), !.num_nodes = @ + 1]

add_supply(g, u, supply) == [g EXCEPT !.b[u] = @ + supply, !.excesses[u] = @ + supply]

add_demand(g, u, demand) == [g EXCEPT !.b[u] = @ - demand, !.excesses[u] = @ - demand]

\* add_directed_edge keeping the whole of upper as the capacity of the
\* stored edge, the lower bound not taken off
mcf_add_directed_edge_capacity_not_reduced(g, from, to, lower, upper, cost) ==
    IF lower > upper \/ from >= g.num_nodes \/ to >= g.num_nodes THEN g
    ELSE LET moved == IF cost >= 0 THEN lower ELSE upper
             edge == IF cost >= 0
                     THEN [from |-> from, to |-> to, flow |-> 0, lower |-> 0, upper |-> upper, cost |-> cost]
                     ELSE [from |-> to, to |-> from, flow |-> 0, lower |-> 0, upper |-> upper, cost |-> -cost]
         IN  [g EXCEPT !.edges = VecPush(@, edge),
                       !.excesses = [[@ EXCEPT ![from] = @ - moved] EXCEPT ![to] = @ + moved],
                       !.lowers = VecPush(@, lower),
                       !.is_reversed = VecPush(@, cost < 0),
                       !.num_edges = @ + 1]

\* returns the graph unchanged when the edge is rejected (None); the id of
\* an accepted edge is the old num_edges.  An edge of negative cost is
\* stored reversed, with its cost negated and its capacity already used.
mcf_add_directed_edge(g, from, to, lower, upper, cost) ==
    IF lower > upper \/ from >= g.num_nodes \/ to >= g.num_nodes THEN g
    ELSE LET moved == IF cost >= 0 THEN lower ELSE upper
             edge == IF cost >= 0
                     THEN [from |-> from, to |-> to, flow |-> 0, lower |-> 0, upper |-> upper - lower, cost |-> cost]
                     ELSE [from |-> to, to |-> from, flow |-> 0, lower |-> 0, upper |-> upper - lower, cost |-> -cost]
         IN  [g EXCEPT !.edges = VecPush(@, edge),
                       !.excesses = [[@ EXCEPT ![from] = @ - moved] EXCEPT ![to] = @ + moved],
                       !.lowers = VecPush(@, lower),
                       !.is_reversed = VecPush(@, cost < 0),
                       !.num_edges = @ + 1]

\* the Option<usize> add_directed_edge returns
mcf_add_directed_edge_result(g, from, to, lower, upper, cost) ==
    IF lower > upper \/ from >= g.num_nodes \/ to >= g.num_nodes THEN <<>>
    ELSE Some(mcf_add_directed_edge(g, from, to, lower, upper, cost).num_edges - 1)

\* get_edge giving a reversed edge the way it is stored: endpoints swapped
\* and the cost negated
mcf_get_edge_stored_orientation(g, edge_id) ==
    IF edge_id >= VecLen(g.edges) THEN <<>>
    ELSE LET edge == g.edges[edge_id]
             lower == g.lowers[edge_id]
         IN  IF g.is_reversed[edge_id]
             THEN Some([from |-> edge.from, to |-> edge.to, flow |-> edge.upper - edge.flow + lower,
                        lower |-> lower, upper |-> edge.upper + lower, cost |-> edge.cost])
             ELSE Some([from |-> edge.from, to |-> edge.to, flow |-> edge.flow + lower,
                        lower |-> lower, upper |-> edge.upper + lower, cost |-> edge.cost])

\* get_edge giving the flow of a reversed edge as it is stored
mcf_get_edge_stored_flow(g, edge_id) ==
    IF edge_id >= VecLen(g.edges) THEN <<>>
    ELSE LET edge == g.edges[edge_id]
             lower == g.lowers[edge_id]
         IN  IF g.is_reversed[edge_id]
             THEN Some([from |-> edge.to, to |-> edge.from, flow |-> edge.flow + lower,
                        lower |-> lower, upper |-> edge.upper + lower, cost |-> -edge.cost])
             ELSE Some([from |-> edge.from, to |-> edge.to, flow |-> edge.flow + lower,
                        lower |-> lower, upper |-> edge.upper + lower, cost |-> edge.cost])

mcf_get_edge(g, edge_id) ==
    IF edge_id >= VecLen(g.edges) THEN <<>>
    ELSE LET edge == g.edges[edge_id]
             lower == g.lowers[edge_id]
         IN  IF g.is_reversed[edge_id]
             THEN Some([from |-> edge.to, to |-> edge.from, flow |-> edge.upper - edge.flow + lower,
                        lower |-> lower, upper |-> edge.upper + lower, cost |-> -edge.cost])
             ELSE Some([from |-> edge.from, to |-> edge.to, flow |-> edge.flow + lower,
                        lower |-> lower, upper |-> edge.upper + lower, cost |-> edge.cost])

minimum_cost(g) ==
    VecSum([edge_id \in 0..(g.num_edges - 1) |->
               mcf_get_edge(g, edge_id)[1].cost * mcf_get_edge(g, edge_id)[1].flow], 0)

is_unbalance(g) == VecSum(g.b, 0) # 0

\* result: the extended graph, the two new nodes and the ids of the new edges
construct_extend_network_one_supply_one_demand(g) ==
    LET src == g.num_nodes
        snk == g.num_nodes + 1
        RECURSIVE connect(_, _, _)
        connect(h, artificial_edges, u) ==
            IF u >= h.num_nodes
            THEN [graph |-> h, source |-> src, sink |-> snk, artificial_nodes |-> <<src, snk>>,
                  artificial_edges |-> artificial_edges]
            ELSE IF u = src \/ u = snk THEN connect(h, artificial_edges, u + 1)
            ELSE LET x == h.excesses[u]
                     linked == IF x > 0
                               THEN [mcf_add_directed_edge(h, src, u, 0, x, 0) EXCEPT !.excesses[src] = @ + x]
                               ELSE IF x < 0
                               THEN [mcf_add_directed_edge(h, u, snk, 0, -x, 0) EXCEPT !.excesses[snk] = @ + x]
                               ELSE h
                 IN  connect([linked EXCEPT !.excesses[u] = 0],
                             IF x # 0 THEN Append(artificial_edges, h.num_edges) ELSE artificial_edges, u + 1)
    IN  connect(mcf_add_node(mcf_add_node(g)), <<>>, 0)

\* result: the extended graph, the new root and the ids of the new edges,
\* each of which carries the excess of its node
construct_extend_network_feasible_solution(g) ==
    LET inf_cost == 1 + VecSum([i \in DOMAIN g.edges |-> g.edges[i].cost], 0)
        root == g.num_nodes
        RECURSIVE connect(_, _, _)
        connect(h, artificial_edges, u) ==
            IF u >= h.num_nodes
            THEN [graph |-> h, root |-> root, artificial_nodes |-> <<root>>, artificial_edges |-> artificial_edges]
            ELSE IF u = root THEN connect(h, artificial_edges, u + 1)
            ELSE LET excess == h.excesses[u]
                     edge_id == h.num_edges
                     linked == IF excess >= 0
                               THEN mcf_add_directed_edge(h, u, root, 0, excess, inf_cost)
                               ELSE mcf_add_directed_edge(h, root, u, 0, -excess, inf_cost)
                 IN  connect([linked EXCEPT !.edges[edge_id].flow = IF excess >= 0 THEN excess ELSE -excess,
                                            !.excesses[u] = 0],
                             Append(artificial_edges, edge_id), u + 1)
    IN  connect(mcf_add_node(g), <<>>, 0)

remove_artificial_sub_graph(g, artificial_nodes, artificial_edges) ==
    LET n == g.num_nodes - Len(artificial_nodes)
        m == g.num_edges - Len(artificial_edges)
    IN  [num_nodes |-> n, num_edges |-> m,
         edges |-> VecResize(g.edges, m, 0), b |-> VecResize(g.b, n, 0),
         lowers |-> VecResize(g.lowers, m, 0), excesses |-> VecResize(g.excesses, n, 0),
         is_reversed |-> VecResize(g.is_reversed, m, FALSE)]

\* -------------------------------------------------- minimum_cost_flow::csr
MCFCSRDefault ==
    [num_nodes |-> 0, num_edges |-> 0, edge_index_to_inside_edge_index |-> <<>>,
     excesses |-> <<>>, potentials |-> <<>>, start |-> <<>>, inside_edge_list |-> <<>>]

mcf_build(self, g) ==
    LET n == g.num_nodes
        m == g.num_edges
        empty == [to |-> 0, flow |-> 0, upper |-> 0, cost |-> 0, rev |-> 0]
        RECURSIVE fill(_, _, _)
        fill(c, edge_index, counter) ==
            IF edge_index >= VecLen(g.edges) THEN c
            ELSE LET edge == g.edges[edge_index]
                     u == edge.from
                     v == edge.to
                     inside_edge_index_u == c.start[u] + counter[u]
                     inside_edge_index_v == c.start[v] + (IF u = v THEN counter[v] + 1 ELSE counter[v])
                 IN  fill([c EXCEPT !.edge_index_to_inside_edge_index[edge_index] = inside_edge_index_u,
                                    !.inside_edge_list =
                                        [[@ EXCEPT ![inside_edge_index_u] =
                                              [to |-> v, flow |-> edge.flow, upper |-> edge.upper,
                                               cost |-> edge.cost, rev |-> inside_edge_index_v]]
                                            EXCEPT ![inside_edge_index_v] =
                                              [to |-> u, flow |-> edge.upper - edge.flow, upper |-> edge.upper,
                                               cost |-> -edge.cost, rev |-> inside_edge_index_u]]],
                          edge_index + 1,
                          [[counter EXCEPT ![u] = @ + 1] EXCEPT ![v] = @ + 1])
    IN  IF n = 0 THEN self
        ELSE fill([num_nodes |-> n, num_edges |-> m,
                   edge_index_to_inside_edge_index |-> VecResize(self.edge_index_to_inside_edge_index, m, NONE),
                   excesses |-> g.excesses,
                   potentials |-> VecResize(self.potentials, n, 0),
                   start |-> mf_prefix(VecResize(self.start, n + 1, 0), mf_degree(g.edges, 0, VecNew(n, 0)), 1, n),
                   inside_edge_list |-> VecNew(2 * m, empty)],
                  0, VecNew(n, 0))

mcf_set_flow(c, g) ==
    [g EXCEPT !.excesses = c.excesses,
              !.edges = [edge_id \in DOMAIN g.edges |->
                  [g.edges[edge_id] EXCEPT !.flow = c.inside_edge_list[c.edge_index_to_inside_edge_index[edge_id]].flow]]]

mcf_push_flow(c, u, edge_id, flow) ==
    LET rev == c.inside_edge_list[edge_id].rev
        to == c.inside_edge_list[edge_id].to
    IN  [c EXCEPT !.inside_edge_list = [[@ EXCEPT ![edge_id].flow = @ + flow] EXCEPT ![rev].flow = @ - flow],
                  !.excesses = [[@ EXCEPT ![u] = @ - flow] EXCEPT ![to] = @ + flow]]

reduced_cost(c, u, e) == e.cost - c.potentials[u] + c.potentials[e.to]

reduced_cost_rev(c, u, e) == -(e.cost - c.potentials[u] + c.potentials[e.to])

\* ------------------------------ minimum_cost_flow::successive_shortest_path
\* Dijkstra from s over the reduced costs, stopped at the first deficit
\* node t that leaves the heap; None when no deficit node is reached
successive_shortest_path_calculate_distance(c, s) ==
    LET RECURSIVE scan(_, _, _, _, _, _)
        scan(u, d, edge_id, bh, dist, prev) ==
            IF edge_id >= c.start[u + 1] THEN [bh |-> bh, dist |-> dist, prev |-> prev]
            ELSE LET edge == c.inside_edge_list[edge_id]
                     new_dist == d + reduced_cost(c, u, edge)
                 IN  IF residual_capacity(edge) # 0 /\ (dist[edge.to] = <<>> \/ dist[edge.to][1] > new_dist)
                     THEN scan(u, d, edge_id + 1, bh \cup {<<new_dist, edge.to>>},
                               [dist EXCEPT ![edge.to] = Some(new_dist)], [prev EXCEPT ![edge.to] = Some(edge_id)])
                     ELSE scan(u, d, edge_id + 1, bh, dist, prev)
        RECURSIVE pop(_, _, _, _)
        pop(bh, visited, dist, prev) ==
            IF bh = {} THEN <<>>
            ELSE LET top == HeapTop(bh)
                     u == top[2]
                     resume(r) == pop(r.bh, [visited EXCEPT ![u] = TRUE], r.dist, r.prev)
                 IN  IF visited[u] THEN pop(bh \ {top}, visited, dist, prev)
                     ELSE IF c.excesses[u] < 0
                     THEN Some([t |-> u, visited |-> [visited EXCEPT ![u] = TRUE], dist |-> dist, prev |-> prev])
                     ELSE resume(scan(u, top[1], c.start[u], bh \ {top}, dist, prev))
    IN  pop({<<0, s>>}, VecNew(c.num_nodes, FALSE), [VecNew(c.num_nodes, <<>>) EXCEPT ![s] = Some(0)],
            VecNew(c.num_nodes, <<>>))

\* result: the CSR after the push, or diverge when the walk along prev from
\* t never reaches a node without a predecessor
successive_shortest_path_update_flow(c, s, t, prev) ==
    LET RECURSIVE walk(_, _, _)
        \* the node where the walk from v ends and the smallest residual on it
        walk(v, delta, fuel) ==
            IF prev[v] = <<>> THEN [v |-> v, delta |-> delta, diverge |-> FALSE]
            ELSE IF fuel = 0 THEN [v |-> v, delta |-> delta, diverge |-> TRUE]
            ELSE LET edge == c.inside_edge_list[prev[v][1]]
                 IN  walk(c.inside_edge_list[edge.rev].to, Min(delta, residual_capacity(edge)), fuel - 1)
        RECURSIVE augment(_, _, _)
        augment(l, v, delta) ==
            IF prev[v] = <<>> THEN l
            ELSE LET edge_idx == prev[v][1]
                     rev == l[edge_idx].rev
                 IN  augment([[l EXCEPT ![edge_idx].flow = @ + delta] EXCEPT ![rev].flow = @ - delta],
                             l[rev].to, delta)
        finish(w) ==
            IF w.diverge THEN [diverge |-> TRUE, csr |-> c]
            ELSE LET delta == Min(w.delta, c.excesses[w.v])
                 IN  [diverge |-> FALSE,
                      csr |-> [c EXCEPT !.inside_edge_list = augment(@, t, delta),
                                        !.excesses = [[@ EXCEPT ![t] = @ + delta] EXCEPT ![s] = @ - delta]]]
    IN  finish(walk(t, Min(c.excesses[s], -c.excesses[t]), Fuel))

updated_potentials_distance_added(c, found) ==
    [u \in DOMAIN c.potentials |->
        IF found.visited[u]
        THEN c.potentials[u] + found.dist[u][1] - found.dist[found.t][1]
        ELSE c.potentials[u]]

\* the potentials after the update of a round: the nodes the search
\* visited move by the distance of t less their own
updated_potentials(c, found) ==
    [u \in DOMAIN c.potentials |->
        IF found.visited[u]
        THEN c.potentials[u] - found.dist[u][1] + found.dist[found.t][1]
        ELSE c.potentials[u]]

\* trace records every round: the source s, the deficit node t and the
\* prev of the search, the CSR before the push, with the potentials
\* updated, and the CSR after it
successive_shortest_path_solve(self, g) ==
    LET RECURSIVE loop(_, _, _, _)
        loop(c, s, fuel, trace) ==
            IF s >= c.num_nodes THEN [diverge |-> FALSE, csr |-> c, trace |-> trace]
            ELSE IF ~(c.excesses[s] > 0) THEN loop(c, s + 1, fuel, trace)
            ELSE IF fuel = 0 THEN [diverge |-> TRUE, csr |-> c, trace |-> trace]
            ELSE LET round(found, before, a) ==
                         [s |-> s, t |-> found.t, prev |-> found.prev, before |-> before, csr |-> a.csr]
                     next(found, before, a) ==
                         IF a.diverge THEN [diverge |-> TRUE, csr |-> a.csr, trace |-> trace]
                         ELSE loop(a.csr, s, fuel - 1, Append(trace, round(found, before, a)))
                     updated(found, before) ==
                         next(found, before, successive_shortest_path_update_flow(before, s, found.t, found.prev))
                     step(r) ==
                         IF r = <<>> THEN loop(c, s + 1, fuel, trace)
                         ELSE updated(r[1], [c EXCEPT !.potentials = updated_potentials(c, r[1])])
                 IN  step(successive_shortest_path_calculate_distance(c, s))
        finish(r) ==
            IF r.diverge THEN [status |-> "Diverge", graph |-> g, trace |-> r.trace]
            ELSE [status |-> IF \A u \in DOMAIN r.csr.excesses : r.csr.excesses[u] = 0
                             THEN "Optimal" ELSE "Infeasible",
                  graph |-> mcf_set_flow(r.csr, g), trace |-> r.trace]
    IN  IF is_unbalance(g) THEN [status |-> "Unbalanced", graph |-> g, trace |-> <<>>]
        ELSE finish(loop(mcf_build(self, g), 0, Fuel, <<>>))

\* -------------------------------------- minimum_cost_flow::cycle_canceling
\* Bellman-Ford over the residual arcs; prev is the caller's vector of
\* (node, arc) pairs and keeps its old entries.  kind is "None", "Some"
\* (with the node start on a negative cycle) or "Panic" (an index of
\* usize::MAX)
find_negative_cycle(c, prev0) ==
    LET n == c.num_nodes
        RECURSIVE relax(_, _, _, _, _, _)
        relax(u, edge_index, dist, prev, start, updated) ==
            IF u >= n THEN [dist |-> dist, prev |-> prev, start |-> start, updated |-> updated]
            ELSE IF edge_index >= c.start[u + 1] THEN relax(u + 1, edge_index, dist, prev, start, updated)
            ELSE LET edge == c.inside_edge_list[edge_index]
                 IN  IF residual_capacity(edge) > 0 /\ dist[u] + edge.cost < dist[edge.to]
                     THEN relax(u, edge_index + 1, [dist EXCEPT ![edge.to] = dist[u] + edge.cost],
                                [prev EXCEPT ![edge.to] = <<u, edge_index>>], u, TRUE)
                     ELSE relax(u, edge_index + 1, dist, prev, start, updated)
        RECURSIVE back(_, _, _)
        back(v, visited, prev) ==
            IF v = NONE \/ prev[v][1] = NONE THEN [kind |-> "Panic", start |-> NONE, prev |-> prev]
            ELSE IF visited[prev[v][1]] THEN [kind |-> "Some", start |-> v, prev |-> prev]
            ELSE back(prev[v][1], [visited EXCEPT ![prev[v][1]] = TRUE], prev)
        RECURSIVE round(_, _, _, _)
        round(k, dist, prev, start) ==
            IF k >= n THEN back(start, VecNew(n, FALSE), prev)
            ELSE LET next(r) == IF ~r.updated THEN [kind |-> "None", start |-> NONE, prev |-> r.prev]
                                ELSE round(k + 1, r.dist, r.prev, r.start)
                 IN  next(relax(0, 0, dist, prev, start, FALSE))
    IN  round(0, VecNew(n, 0), prev0, NONE)

cycle_canceling_solve(self, g) ==
    LET RECURSIVE collect(_, _, _, _, _, _)
        \* the arcs of the cycle through start and the smallest residual on it
        collect(c, prev, start, v, r, fuel) ==
            IF v = start THEN r
            ELSE IF v = NONE \/ prev[v][2] = NONE THEN [r EXCEPT !.fault = "Panic"]
            ELSE IF fuel = 0 THEN [r EXCEPT !.fault = "Diverge"]
            ELSE collect(c, prev, start, prev[v][1],
                         [fault |-> "None", cycle |-> Append(r.cycle, prev[v][2]),
                          delta |-> Min(r.delta, residual_capacity(c.inside_edge_list[prev[v][2]]))],
                         fuel - 1)
        RECURSIVE augment(_, _, _, _)
        augment(l, cycle, k, delta) ==
            IF k > Len(cycle) THEN l
            ELSE augment([[l EXCEPT ![cycle[k]].flow = @ + delta] EXCEPT ![l[cycle[k]].rev].flow = @ - delta],
                         cycle, k + 1, delta)
        RECURSIVE cancel(_, _, _)
        cancel(c, prev, fuel) ==
            LET pushed(r, f) ==
                    IF r.fault # "None" THEN [fault |-> r.fault, csr |-> c]
                    ELSE IF ~(r.delta > 0) THEN [fault |-> "Panic", csr |-> c]
                    ELSE cancel([c EXCEPT !.inside_edge_list = augment(@, r.cycle, 1, r.delta)], f.prev, fuel - 1)
                step(f) ==
                    IF f.kind = "None" THEN [fault |-> "None", csr |-> c]
                    ELSE IF f.kind = "Panic" \/ f.prev[f.start][2] = NONE THEN [fault |-> "Panic", csr |-> c]
                    ELSE pushed(collect(c, f.prev, f.start, f.prev[f.start][1],
                                        [fault |-> "None", cycle |-> <<f.prev[f.start][2]>>,
                                         delta |-> residual_capacity(c.inside_edge_list[f.prev[f.start][2]])],
                                        Fuel), f)
            IN  IF fuel = 0 THEN [fault |-> "Diverge", csr |-> c]
                ELSE step(find_negative_cycle(c, prev))
        finish(ext, r) ==
            IF r.fault # "None" THEN [status |-> r.fault, graph |-> ext.graph]
            ELSE LET h == mcf_set_flow(r.csr, ext.graph)
                 IN  [status |-> IF \A k \in DOMAIN ext.artificial_edges : h.edges[ext.artificial_edges[k]].flow = 0
                                 THEN "Optimal" ELSE "Infeasible",
                      graph |-> remove_artificial_sub_graph(h, ext.artificial_nodes, ext.artificial_edges)]
        run(ext, c) == finish(ext, cancel(c, VecNew(c.num_nodes, <<NONE, NONE>>), Fuel))
        extended(ext) == run(ext, mcf_build(self, ext.graph))
    IN  extended(construct_extend_network_feasible_solution(g))

\* ------------------------------------------- minimum_cost_flow::primal_dual
\* the solver p is [csr, distances, current_edge]

\* Dijkstra from src over the reduced costs of the residual arcs, then the
\* potential of every visited node is lowered by its distance
primal_dual_dual(c, src, snk) ==
    LET RECURSIVE scan(_, _, _, _, _)
        scan(u, d, edge_index, bh, dist) ==
            IF edge_index >= c.start[u + 1] THEN [bh |-> bh, dist |-> dist]
            ELSE LET e == c.inside_edge_list[edge_index]
                     new_dist == d + reduced_cost(c, u, e)
                 IN  IF residual_capacity(e) # 0 /\ (dist[e.to] = <<>> \/ dist[e.to][1] > new_dist)
                     THEN scan(u, d, edge_index + 1, bh \cup {<<new_dist, e.to>>},
                               [dist EXCEPT ![e.to] = Some(new_dist)])
                     ELSE scan(u, d, edge_index + 1, bh, dist)
        RECURSIVE pop(_, _, _)
        pop(bh, visited, dist) ==
            IF bh = {} THEN [visited |-> visited, dist |-> dist]
            ELSE LET top == HeapTop(bh)
                     u == top[2]
                     resume(r) == pop(r.bh, [visited EXCEPT ![u] = TRUE], r.dist)
                 IN  IF visited[u] THEN pop(bh \ {top}, visited, dist)
                     ELSE resume(scan(u, top[1], c.start[u], bh \ {top}, dist))
        update(r) ==
            [reached |-> r.visited[snk],
             csr |-> [c EXCEPT !.potentials = [u \in DOMAIN c.potentials |->
                          IF r.visited[u] THEN c.potentials[u] - r.dist[u][1] ELSE c.potentials[u]]]]
    IN  update(pop({<<0, src>>}, VecNew(c.num_nodes, FALSE), [VecNew(c.num_nodes, <<>>) EXCEPT ![src] = Some(0)]))

\* the number of arcs from each node to snk over residual arcs of reduced
\* cost zero, num_nodes when there is no such path
primal_dual_update_distances(c, src, snk) ==
    LET RECURSIVE neighbors(_, _, _, _)
        neighbors(que, distances, v, i) ==
            IF i >= c.start[v + 1] THEN [que |-> que, distances |-> distances]
            ELSE LET edge == c.inside_edge_list[i]
                 IN  IF edge.flow > 0 /\ distances[edge.to] = c.num_nodes /\ reduced_cost_rev(c, v, edge) = 0
                     THEN neighbors(IF edge.to # src THEN Append(que, edge.to) ELSE que,
                                    [distances EXCEPT ![edge.to] = distances[v] + 1], v, i + 1)
                     ELSE neighbors(que, distances, v, i + 1)
        RECURSIVE bfs(_)
        bfs(r) == IF r.que = <<>> THEN r.distances
                  ELSE bfs(neighbors(Tail(r.que), r.distances, Head(r.que), c.start[Head(r.que)]))
    IN  bfs([que |-> <<snk>>, distances |-> [VecNew(c.num_nodes, c.num_nodes) EXCEPT ![snk] = 0]])

primal_dual_is_admissible_edge(p, from, i) ==
    /\ residual_capacity(p.csr.inside_edge_list[i]) > 0
    /\ p.distances[from] = p.distances[p.csr.inside_edge_list[i].to] + 1

RECURSIVE primal_dual_dfs(_, _, _, _)
\* result: the solver after the pushes and the amount pushed, Some(res)
primal_dual_dfs(p, u, snk, upper) ==
    LET pushed(q, edge_index, d) ==
            [q EXCEPT !.csr.inside_edge_list =
                [[@ EXCEPT ![edge_index].flow = @ + d] EXCEPT ![@[edge_index].rev].flow = @ - d]]
        RECURSIVE scan(_, _, _)
        scan(q, edge_index, res) ==
            IF edge_index >= q.csr.start[u + 1]
            THEN [p |-> [q EXCEPT !.current_edge[u] = q.csr.start[u + 1], !.distances[u] = q.csr.num_nodes],
                  res |-> res]
            ELSE LET e == q.csr.inside_edge_list[edge_index]
                     next(r) == IF res + r.res = upper
                                THEN [p |-> pushed(r.p, edge_index, r.res), res |-> res + r.res]
                                ELSE scan(pushed(r.p, edge_index, r.res), edge_index + 1, res + r.res)
                 IN  IF ~primal_dual_is_admissible_edge(q, u, edge_index) \/ reduced_cost(q.csr, u, e) # 0
                     THEN scan(q, edge_index + 1, res)
                     ELSE next(primal_dual_dfs([q EXCEPT !.current_edge[u] = edge_index], e.to, snk,
                                               Min(residual_capacity(e), upper - res)))
    IN  IF u = snk THEN [p |-> p, res |-> upper]
        ELSE scan(p, p.current_edge[u], 0)

\* blocking flows over the arcs of reduced cost zero
primal_dual_primal(p, src, snk) ==
    LET done(q, flow) ==
            [fault |-> "None",
             p |-> [q EXCEPT !.csr.excesses = [[@ EXCEPT ![src] = @ - flow] EXCEPT ![snk] = @ + flow]]]
        RECURSIVE loop(_, _, _)
        loop(q, flow, fuel) ==
            LET next(r) == loop(r.p, flow + r.res, fuel - 1)
                step(d) == IF d.distances[src] >= d.csr.num_nodes THEN done(d, flow)
                           ELSE next(primal_dual_dfs(
                                    [d EXCEPT !.current_edge = [u \in DOMAIN @ |-> d.csr.start[u]]],
                                    src, snk, d.csr.excesses[src]))
            IN  IF ~(q.csr.excesses[src] > 0) THEN done(q, flow)
                ELSE IF fuel = 0 THEN [fault |-> "Diverge", p |-> q]
                ELSE step([q EXCEPT !.distances = primal_dual_update_distances(q.csr, src, snk)])
    IN  IF ~(p.csr.excesses[src] > 0 /\ p.csr.excesses[snk] < 0) THEN [fault |-> "Panic", p |-> p]
        ELSE loop(p, 0, Fuel)

primal_dual_solve(self, g) ==
    LET RECURSIVE loop(_, _, _, _)
        loop(p, src, snk, fuel) ==
            LET after_primal(r) == IF r.fault # "None" THEN r ELSE loop(r.p, src, snk, fuel - 1)
                after_dual(d) == IF ~d.reached THEN [fault |-> "None", p |-> [p EXCEPT !.csr = d.csr]]
                                 ELSE after_primal(primal_dual_primal([p EXCEPT !.csr = d.csr], src, snk))
            IN  IF ~(p.csr.excesses[src] > 0) THEN [fault |-> "None", p |-> p]
                ELSE IF fuel = 0 THEN [fault |-> "Diverge", p |-> p]
                ELSE after_dual(primal_dual_dual(p.csr, src, snk))
        finish(ext, r) ==
            IF r.fault # "None" THEN [status |-> r.fault, graph |-> ext.graph]
            ELSE [status |-> IF r.p.csr.excesses[ext.source] # 0 \/ r.p.csr.excesses[ext.sink] # 0
                             THEN "Infeasible" ELSE "Optimal",
                  graph |-> remove_artificial_sub_graph(mcf_set_flow(r.p.csr, ext.graph),
                                                        ext.artificial_nodes, ext.artificial_edges)]
        start(ext, c) ==
            finish(ext, loop([csr |-> c, distances |-> VecResize(self.distances, c.num_nodes, 0),
                              current_edge |-> VecResize(self.current_edge, c.num_nodes, 0)],
                             ext.source, ext.sink, Fuel))
        run(ext) == start(ext, mcf_build(self.csr, ext.graph))
    IN  IF is_unbalance(g) THEN [status |-> "Unbalanced", graph |-> g]
        ELSE run(construct_extend_network_one_supply_one_demand(g))


\* ----------------------------------------- minimum_cost_flow::out_of_kilter
kilter_number(c, u, edge_id) ==
    LET edge == c.inside_edge_list[edge_id]
    IN  IF reduced_cost(c, u, edge) >= 0 THEN 0 ELSE residual_capacity(edge)

\* Dijkstra from s over the residual arcs, an arc of negative reduced cost
\* counting as zero
out_of_kilter_shortest_path(c, s) ==
    LET RECURSIVE scan(_, _, _, _, _, _)
        scan(u, d, edge_id, bh, dist, prev) ==
            IF edge_id >= c.start[u + 1] THEN [bh |-> bh, dist |-> dist, prev |-> prev]
            ELSE LET edge == c.inside_edge_list[edge_id]
                     new_dist == d + Max(reduced_cost(c, u, edge), 0)
                 IN  IF ~(residual_capacity(edge) <= 0) /\ (dist[edge.to] = <<>> \/ dist[edge.to][1] > new_dist)
                     THEN scan(u, d, edge_id + 1, bh \cup {<<new_dist, edge.to>>},
                               [dist EXCEPT ![edge.to] = Some(new_dist)], [prev EXCEPT ![edge.to] = Some(edge_id)])
                     ELSE scan(u, d, edge_id + 1, bh, dist, prev)
        RECURSIVE pop(_, _, _, _)
        pop(bh, visited, dist, prev) ==
            IF bh = {} THEN [dist |-> dist, prev |-> prev]
            ELSE LET top == HeapTop(bh)
                     u == top[2]
                     resume(r) == pop(r.bh, [visited EXCEPT ![u] = TRUE], r.dist, r.prev)
                 IN  IF visited[u] THEN pop(bh \ {top}, visited, dist, prev)
                     ELSE resume(scan(u, top[1], c.start[u], bh \ {top}, dist, prev))
    IN  pop({<<0, s>>}, VecNew(c.num_nodes, FALSE), [VecNew(c.num_nodes, <<>>) EXCEPT ![s] = Some(0)],
            VecNew(c.num_nodes, <<>>))

\* result: the CSR after delta is pushed round the cycle closed by the arc
\* edge_id (p -> q), or diverge when the walk along prev never ends
out_of_kilter_update_flow_in_cycle(c, q, edge_id, prev0) ==
    LET prev == [prev0 EXCEPT ![q] = Some(edge_id)]
        RECURSIVE walk(_, _, _)
        walk(v, delta, fuel) ==
            IF prev[v] = <<>> THEN [delta |-> delta, diverge |-> FALSE]
            ELSE IF fuel = 0 THEN [delta |-> delta, diverge |-> TRUE]
            ELSE LET edge == c.inside_edge_list[prev[v][1]]
                     w == c.inside_edge_list[edge.rev].to
                 IN  IF w = q THEN [delta |-> Min(delta, residual_capacity(edge)), diverge |-> FALSE]
                     ELSE walk(w, Min(delta, residual_capacity(edge)), fuel - 1)
        RECURSIVE augment(_, _, _)
        augment(d, v, delta) ==
            IF prev[v] = <<>> THEN d
            ELSE LET w == d.inside_edge_list[d.inside_edge_list[prev[v][1]].rev].to
                 IN  IF w = q THEN mcf_push_flow(d, w, prev[v][1], delta)
                     ELSE augment(mcf_push_flow(d, w, prev[v][1], delta), w, delta)
        finish(r) == IF r.diverge THEN [diverge |-> TRUE, csr |-> c]
                     ELSE [diverge |-> FALSE, csr |-> augment(c, q, r.delta)]
    IN  finish(walk(q, residual_capacity(c.inside_edge_list[edge_id]), Fuel))

out_of_kilter_solve(self, g) ==
    LET RECURSIVE collect(_, _, _)
        \* the arcs (p, q, edge_id) whose kilter number is not zero
        collect(c, edge_id, out_of_kilter_edges) ==
            IF edge_id >= VecLen(c.inside_edge_list) THEN out_of_kilter_edges
            ELSE LET edge == c.inside_edge_list[edge_id]
                     p == c.inside_edge_list[edge.rev].to
                 IN  collect(c, edge_id + 1,
                             IF kilter_number(c, p, edge_id) # 0
                             THEN Append(out_of_kilter_edges, <<p, edge.to, edge_id>>)
                             ELSE out_of_kilter_edges)
        RECURSIVE outer(_, _, _, _)
        outer(c, out_of_kilter_edges, k, fuel) ==
            IF k > Len(out_of_kilter_edges) THEN [fault |-> "None", csr |-> c]
            ELSE LET p == out_of_kilter_edges[k][1]
                     q == out_of_kilter_edges[k][2]
                     edge_id == out_of_kilter_edges[k][3]
                     pushed(r) == IF r.diverge THEN [fault |-> "Diverge", csr |-> c]
                                  ELSE outer(r.csr, out_of_kilter_edges, k, fuel - 1)
                     lowered(sp) ==
                         [c EXCEPT !.potentials = [u \in DOMAIN c.potentials |->
                             IF sp.dist[u] # <<>> THEN c.potentials[u] - sp.dist[u][1] ELSE c.potentials[u]]]
                     adjusted(sp, d) ==
                         IF reduced_cost(d, p, d.inside_edge_list[edge_id]) < 0
                         THEN pushed(out_of_kilter_update_flow_in_cycle(d, q, edge_id, sp.prev))
                         ELSE outer(d, out_of_kilter_edges, k, fuel - 1)
                     found(sp) == IF sp.prev[p] = <<>> THEN [fault |-> "None", csr |-> c]
                                  ELSE adjusted(sp, lowered(sp))
                 IN  IF ~(kilter_number(c, p, edge_id) > 0) THEN outer(c, out_of_kilter_edges, k + 1, fuel)
                     ELSE IF fuel = 0 THEN [fault |-> "Diverge", csr |-> c]
                     ELSE found(out_of_kilter_shortest_path(c, q))
        written(ext, h) ==
            [status |-> IF \A i \in 1..Len(ext.artificial_edges) : h.edges[ext.artificial_edges[i]].flow = 0
                        THEN "Optimal" ELSE "Infeasible",
             graph |-> remove_artificial_sub_graph(h, ext.artificial_nodes, ext.artificial_edges)]
        finish(ext, r) ==
            IF r.fault # "None" THEN [status |-> r.fault, graph |-> ext.graph]
            ELSE written(ext, mcf_set_flow(r.csr, ext.graph))
        start(ext, c) == finish(ext, outer(c, collect(c, 0, <<>>), 1, Fuel))
        run(ext) == start(ext, mcf_build(self, ext.graph))
    IN  IF is_unbalance(g) THEN [status |-> "Unbalanced", graph |-> g]
        ELSE run(construct_extend_network_feasible_solution(g))


\* ----------------------------- minimum_cost_flow::cost_scaling_push_relabel
\* the solver p is [csr, active_nodes, current_edge, alpha]
CostScalingPushRelabelDefault ==
    [csr |-> MCFCSRDefault, active_nodes |-> <<>>, current_edge |-> <<>>, alpha |-> 16]

is_admissible(c, u, edge, epsilon) == reduced_cost(c, u, edge) < 0

cost_scaling_relabel(p, u, epsilon) ==
    LET c == p.csr
        guaranteed_new_potential == c.potentials[u] + epsilon
        RECURSIVE scan(_, _, _, _)
        scan(edge_id, mini_potential, previous_mini_potential, current_edges_for_u) ==
            IF edge_id >= c.start[u + 1]
            THEN IF mini_potential = <<>>
                 THEN IF c.excesses[u] # 0 THEN p
                      ELSE [p EXCEPT !.csr.potentials[u] = guaranteed_new_potential, !.current_edge[u] = 0]
                 ELSE LET new_potential == mini_potential[1] + epsilon
                      IN  [p EXCEPT !.csr.potentials[u] = new_potential,
                                    !.current_edge[u] =
                                        IF previous_mini_potential = <<>> \/ previous_mini_potential[1] >= new_potential
                                        THEN current_edges_for_u ELSE c.start[u]]
            ELSE LET edge == c.inside_edge_list[edge_id]
                     new_potential == c.potentials[edge.to] + edge.cost
                 IN  IF residual_capacity(edge) <= 0
                     THEN scan(edge_id + 1, mini_potential, previous_mini_potential, current_edges_for_u)
                     ELSE IF mini_potential = <<>> \/ new_potential < mini_potential[1]
                     THEN IF new_potential < guaranteed_new_potential
                          THEN [p EXCEPT !.csr.potentials[u] = guaranteed_new_potential, !.current_edge[u] = edge_id]
                          ELSE scan(edge_id + 1, Some(new_potential), mini_potential, edge_id)
                     ELSE scan(edge_id + 1, mini_potential, previous_mini_potential, current_edges_for_u)
    IN  scan(c.start[u], <<>>, <<>>, 0)

\* result: the solver, and whether u is a deficit node or has an admissible
\* arc at or after its current edge; if not, u is relabelled
look_ahead(p, u, epsilon) ==
    LET RECURSIVE scan(_)
        scan(edge_id) ==
            IF edge_id >= p.csr.start[u + 1]
            THEN [p |-> cost_scaling_relabel(p, u, epsilon), found |-> FALSE]
            ELSE LET edge == p.csr.inside_edge_list[edge_id]
                 IN  IF residual_capacity(edge) <= 0 THEN scan(edge_id + 1)
                     ELSE IF is_admissible(p.csr, u, edge, epsilon)
                     THEN [p |-> [p EXCEPT !.current_edge[u] = edge_id], found |-> TRUE]
                     ELSE scan(edge_id + 1)
    IN  IF p.csr.excesses[u] < 0 THEN [p |-> p, found |-> TRUE]
        ELSE scan(p.current_edge[u])

cost_scaling_push(p, u, epsilon) ==
    LET RECURSIVE scan(_, _)
        scan(q, edge_id) ==
            IF edge_id >= q.csr.start[u + 1] THEN [q EXCEPT !.current_edge[u] = q.csr.start[u]]
            ELSE LET edge == q.csr.inside_edge_list[edge_id]
                     to == edge.to
                     sent(r, flow, c) ==
                         IF c.excesses[u] = 0
                         THEN [r EXCEPT !.csr = c, !.current_edge[u] = edge_id,
                                        !.active_nodes = IF c.excesses[to] > 0 /\ c.excesses[to] <= flow
                                                         THEN Append(@, to) ELSE @]
                         ELSE scan([r EXCEPT !.csr = c,
                                             !.active_nodes = IF c.excesses[to] > 0 /\ c.excesses[to] <= flow
                                                              THEN Append(@, to) ELSE @],
                                   edge_id + 1)
                     send(r, flow) == sent(r, flow, mcf_push_flow(r.csr, u, edge_id, flow))
                     looked(la) ==
                         IF ~la.found /\ ~is_admissible(la.p.csr, u, la.p.csr.inside_edge_list[edge_id], epsilon)
                         THEN scan(la.p, edge_id + 1)
                         ELSE send(la.p, Min(residual_capacity(la.p.csr.inside_edge_list[edge_id]),
                                             la.p.csr.excesses[u]))
                 IN  IF residual_capacity(edge) <= 0 \/ ~is_admissible(q.csr, u, edge, epsilon)
                     THEN scan(q, edge_id + 1)
                     ELSE looked(look_ahead(q, to, epsilon))
    IN  scan(p, p.csr.start[u])

cost_scaling_discharge(p, u, epsilon) ==
    LET RECURSIVE loop(_, _)
        loop(q, fuel) ==
            LET pushed(r) == IF r.csr.excesses[u] = 0 THEN [diverge |-> FALSE, p |-> r]
                             ELSE loop(cost_scaling_relabel(r, u, epsilon), fuel - 1)
            IN  IF ~(q.csr.excesses[u] > 0) THEN [diverge |-> FALSE, p |-> q]
                ELSE IF fuel = 0 THEN [diverge |-> TRUE, p |-> q]
                ELSE pushed(cost_scaling_push(q, u, epsilon))
    IN  loop(p, Fuel)

\* from an epsilon-optimal flow of the previous scale to one of this scale
refine(p, epsilon) ==
    LET RECURSIVE saturate(_, _, _)
        saturate(c, u, edge_id) ==
            IF u >= c.num_nodes THEN c
            ELSE IF edge_id >= c.start[u + 1] THEN saturate(c, u + 1, edge_id)
            ELSE LET edge == c.inside_edge_list[edge_id]
                 IN  saturate(IF reduced_cost(c, u, edge) < 0
                              THEN mcf_push_flow(c, u, edge_id, residual_capacity(edge))
                              ELSE IF reduced_cost(c, u, edge) > 0
                              THEN mcf_push_flow(c, u, edge_id, -edge.flow)
                              ELSE c,
                              u, edge_id + 1)
        activate(c) ==
            [p EXCEPT !.csr = c,
                      !.current_edge = [u \in DOMAIN @ |-> c.start[u]],
                      !.active_nodes = @ \o SelectSeq([i \in 1..c.num_nodes |-> i - 1],
                                                      LAMBDA u : c.excesses[u] > 0)]
        RECURSIVE drain(_, _)
        drain(q, fuel) ==
            LET next(r) == IF r.diverge THEN [fault |-> "Diverge", p |-> r.p] ELSE drain(r.p, fuel - 1)
            IN  IF q.active_nodes = <<>> THEN [fault |-> "None", p |-> q]
                ELSE IF fuel = 0 THEN [fault |-> "Diverge", p |-> q]
                ELSE next(cost_scaling_discharge(
                              [q EXCEPT !.active_nodes = SubSeq(@, 1, Len(@) - 1)],
                              q.active_nodes[Len(q.active_nodes)], epsilon))
    IN  drain(activate(saturate(p.csr, 0, 0)), Fuel)

\* a maximum flow from the supplies to the demands of the original edges
\* saturates every supply
check_feasibility(g) ==
    LET src == g.num_nodes
        snk == g.num_nodes + 1
        RECURSIVE copy(_, _, _)
        copy(m, excesses, edge_id) ==
            IF edge_id >= VecLen(g.edges) THEN [graph |-> m, excesses |-> excesses]
            ELSE LET edge == g.edges[edge_id]
                     from == IF g.is_reversed[edge_id] THEN edge.to ELSE edge.from
                     to == IF g.is_reversed[edge_id] THEN edge.from ELSE edge.to
                 IN  copy(mf_add_directed_edge(m, from, to, edge.upper),
                          [[excesses EXCEPT ![from] = @ - g.lowers[edge_id]] EXCEPT ![to] = @ + g.lowers[edge_id]],
                          edge_id + 1)
        RECURSIVE link(_, _, _, _)
        link(m, excesses, u, total_excess) ==
            IF u >= g.num_nodes THEN [graph |-> m, total_excess |-> total_excess]
            ELSE IF excesses[u] > 0
            THEN link(mf_add_directed_edge(m, src, u, excesses[u]), excesses, u + 1, total_excess + excesses[u])
            ELSE IF excesses[u] < 0
            THEN link(mf_add_directed_edge(m, u, snk, -excesses[u]), excesses, u + 1, total_excess)
            ELSE link(m, excesses, u + 1, total_excess)
        solved(r, total_excess) ==
            IF r.status # "Optimal" THEN [fault |-> r.status, feasible |-> FALSE]
            ELSE [fault |-> "None", feasible |-> maximum_flow(r.graph, src) >= total_excess]
        solve(l) == solved(capacity_scaling_solve(MFCSRDefault, src, snk, l.graph), l.total_excess)
        linked(r) == solve(link(r.graph, r.excesses, 0, 0))
    IN  linked(copy([MFGraphDefault EXCEPT !.num_nodes = g.num_nodes + 2,
                                           !.excesses = VecNew(g.num_nodes + 2, 0)], g.b, 0))

cost_scaling_push_relabel_solve(self, g) ==
    LET RECURSIVE scale(_, _)
        scale(p, epsilon) ==
            LET next(r, eps) == IF r.fault # "None" \/ eps = 1 THEN r ELSE scale(r.p, eps)
            IN  next(refine(p, Max(1, epsilon \div p.alpha)), Max(1, epsilon \div p.alpha))
        costs(c) == {c.inside_edge_list[i].cost : i \in DOMAIN c.inside_edge_list}
        gamma(c) == IF costs(c) = {} THEN 1 ELSE CHOOSE x \in costs(c) : \A y \in costs(c) : x >= y
        scaled(c, k) ==
            [c EXCEPT !.inside_edge_list = [i \in DOMAIN @ |-> [@[i] EXCEPT !.cost = @ * k]]]
        unscaled(c, k) ==
            [c EXCEPT !.inside_edge_list = [i \in DOMAIN @ |-> [@[i] EXCEPT !.cost = @ \div k]]]
        finish(r, k) ==
            IF r.fault # "None" THEN [status |-> r.fault, graph |-> g]
            ELSE [status |-> "Optimal", graph |-> mcf_set_flow(unscaled(r.p.csr, k), g)]
        run(c, cost_scaling_factor) ==
            finish(scale([csr |-> scaled(c, cost_scaling_factor), active_nodes |-> self.active_nodes,
                          current_edge |-> VecResize(self.current_edge, c.num_nodes, 0), alpha |-> self.alpha],
                         Max(1, gamma(c) * cost_scaling_factor)),
                   cost_scaling_factor)
        checked(c, f) ==
            IF f.fault # "None" THEN [status |-> f.fault, graph |-> g]
            ELSE IF ~f.feasible THEN [status |-> "Infeasible", graph |-> g]
            ELSE run(c, self.alpha * c.num_nodes)
        built(c) ==
            IF \A u \in DOMAIN c.excesses : c.excesses[u] = 0 THEN [status |-> "Optimal", graph |-> g]
            ELSE checked(c, check_feasibility(g))
    IN  IF is_unbalance(g) THEN [status |-> "Unbalanced", graph |-> g]
        ELSE built(mcf_build(self.csr, g))


\* ------------------------------ minimum_cost_flow::spanning_tree_structure
\* The tree structure st carries one field more than the Rust struct: fault
\* is "None" until an operation panics ("Panic": an index that is usize::MAX
\* or out of range, a usize subtraction below zero, a failed assert!) or
\* runs out of Fuel ("Diverge"); every later operation leaves a faulted
\* structure as it is.  A usize::MAX is NONE, and a negative number other
\* than NONE is the complement of a small number, as in two's complement.
SpanningTreeStructureDefault ==
    [num_nodes |-> 0, num_edges |-> 0, excesses |-> <<>>, nodes |-> <<>>, edges |-> <<>>, root |-> 0,
     next_node_dft |-> <<>>, prev_node_dft |-> <<>>, last_descendent_dft |-> <<>>, num_successors |-> <<>>,
     fault |-> "None"]

opposite_side(edge, u) ==
    LET RECURSIVE xor(_, _)
        xor(a, b) == IF a = 0 THEN b ELSE IF b = 0 THEN a
                     ELSE ((a + b) % 2) + 2 * xor(a \div 2, b \div 2)
        usize_xor(a, b) == IF a < 0 /\ b < 0 THEN xor(-1 - a, -1 - b)
                           ELSE IF a < 0 THEN -1 - xor(-1 - a, b)
                           ELSE IF b < 0 THEN -1 - xor(a, -1 - b)
                           ELSE xor(a, b)
    IN  usize_xor(usize_xor(u, edge.to), edge.from)

\* the edges of the graph are pushed behind the edges the structure holds
st_build(self, g) ==
    LET old == VecLen(self.edges)
        n == g.num_nodes
    IN  [num_nodes |-> n, num_edges |-> g.num_edges, excesses |-> g.excesses,
         nodes |-> VecResize(self.nodes, n, [parent |-> NONE, parent_edge_id |-> NONE, potential |-> 0]),
         edges |-> [i \in 0..(old + VecLen(g.edges) - 1) |->
                       IF i < old THEN self.edges[i]
                       ELSE [from |-> g.edges[i - old].from, to |-> g.edges[i - old].to,
                             upper |-> g.edges[i - old].upper, cost |-> g.edges[i - old].cost,
                             flow |-> g.edges[i - old].flow, state |-> "Lower"]],
         root |-> NONE,
         next_node_dft |-> VecResize(self.next_node_dft, n, NONE),
         prev_node_dft |-> VecResize(self.prev_node_dft, n, NONE),
         last_descendent_dft |-> VecResize(self.last_descendent_dft, n, NONE),
         num_successors |-> VecResize(self.num_successors, n, 0),
         fault |-> IF \A i \in DOMAIN g.edges : g.edges[i].upper >= 0 /\ g.edges[i].cost >= 0
                   THEN self.fault ELSE "Panic"]

st_reduced_cost(st, edge) == edge.cost - st.nodes[edge.from].potential + st.nodes[edge.to].potential

update_flow_in_path(st, src, snk, delta) ==
    LET RECURSIVE walk(_, _, _)
        walk(edges, now, fuel) ==
            IF now = src THEN [fault |-> "None", edges |-> edges]
            ELSE IF now \notin DOMAIN st.nodes \/ st.nodes[now].parent_edge_id \notin DOMAIN edges
            THEN [fault |-> "Panic", edges |-> edges]
            ELSE IF fuel = 0 THEN [fault |-> "Diverge", edges |-> edges]
            ELSE walk([edges EXCEPT ![st.nodes[now].parent_edge_id].flow =
                          IF edges[st.nodes[now].parent_edge_id].from = st.nodes[now].parent
                          THEN @ + delta ELSE @ - delta],
                      st.nodes[now].parent, fuel - 1)
        finish(r) ==
            IF r.fault # "None" THEN [st EXCEPT !.fault = r.fault]
            ELSE [st EXCEPT !.edges = r.edges,
                            !.excesses = [[@ EXCEPT ![src] = @ - delta] EXCEPT ![snk] = @ + delta]]
    IN  IF st.fault # "None" THEN st ELSE finish(walk(st.edges, snk, Fuel))

update_flow_in_cycle(st, entering_edge_id, delta0, apex) ==
    LET delta == IF st.edges[entering_edge_id].state = "Upper" THEN -delta0 ELSE delta0
        RECURSIVE walk(_, _, _, _)
        \* side is 1 on the walk up from the tail of the entering arc, -1 from its head
        walk(r, now, side, fuel) ==
            IF r.fault # "None" \/ now = apex THEN r
            ELSE IF now \notin DOMAIN st.nodes \/ st.nodes[now].parent_edge_id \notin DOMAIN r.edges
            THEN [r EXCEPT !.fault = "Panic"]
            ELSE IF fuel = 0 THEN [r EXCEPT !.fault = "Diverge"]
            ELSE walk([r EXCEPT !.edges[st.nodes[now].parent_edge_id].flow =
                          IF now = r.edges[st.nodes[now].parent_edge_id].from
                          THEN @ - side * delta ELSE @ + side * delta],
                      st.nodes[now].parent, side, fuel - 1)
        finish(r) == IF r.fault # "None" THEN [st EXCEPT !.fault = r.fault] ELSE [st EXCEPT !.edges = r.edges]
        head(r) == finish(walk(r, st.edges[entering_edge_id].to, -1, Fuel))
    IN  IF st.fault # "None" THEN st
        ELSE head(walk([fault |-> "None", edges |-> [st.edges EXCEPT ![entering_edge_id].flow = @ + delta]],
                       st.edges[entering_edge_id].from, 1, Fuel))

re_rooting_delta_unsigned(st, new_root, entering_edge_id) ==
    st_reduced_cost(st, st.edges[entering_edge_id])

\* what re_rooting adds to the potentials: the reduced cost of the entering
\* arc, negated when the new root is its head
re_rooting_delta(st, new_root, entering_edge_id) ==
    IF new_root = st.edges[entering_edge_id].from
    THEN st_reduced_cost(st, st.edges[entering_edge_id])
    ELSE -st_reduced_cost(st, st.edges[entering_edge_id])

\* makes new_root the root of its tree: every arc on the path from the old
\* root is turned round, then the potentials of the tree are shifted by the
\* reduced cost of the entering arc
re_rooting(st, new_root, entering_edge_id) ==
    LET RECURSIVE climb(_, _, _)
        climb(now, ancestors, fuel) ==
            IF now = NONE THEN [fault |-> "None", ancestors |-> ancestors]
            ELSE IF now \notin DOMAIN st.nodes THEN [fault |-> "Panic", ancestors |-> ancestors]
            ELSE IF fuel = 0 THEN [fault |-> "Diverge", ancestors |-> ancestors]
            ELSE climb(st.nodes[now].parent, <<now>> \o ancestors, fuel - 1)
        rotate(s, p, q) ==
            LET size_p == s.num_successors[p]
                last_q == s.last_descendent_dft[q]
                prev_q == s.prev_node_dft[q]
                next_last_q == IF last_q \in DOMAIN s.next_node_dft THEN s.next_node_dft[last_q] ELSE NONE
                last_p == IF s.last_descendent_dft[p] = last_q THEN prev_q ELSE s.last_descendent_dft[p]
            IN  IF ~({last_q, prev_q, next_last_q, last_p} \subseteq DOMAIN s.nodes) \/ size_p < s.num_successors[q]
                THEN [s EXCEPT !.fault = "Panic"]
                ELSE [s EXCEPT
                        !.nodes = [s.nodes EXCEPT ![p].parent = q, ![q].parent = NONE,
                                                  ![p].parent_edge_id = s.nodes[q].parent_edge_id,
                                                  ![q].parent_edge_id = NONE],
                        !.num_successors = [s.num_successors EXCEPT ![p] = size_p - s.num_successors[q], ![q] = size_p],
                        !.next_node_dft = [s.next_node_dft EXCEPT ![prev_q] = next_last_q, ![last_q] = q,
                                                                  ![last_q] = p, ![last_p] = q],
                        !.prev_node_dft = [s.prev_node_dft EXCEPT ![next_last_q] = prev_q, ![q] = last_q,
                                                                  ![p] = last_q, ![q] = last_p],
                        !.last_descendent_dft = [s.last_descendent_dft EXCEPT ![p] = last_p, ![q] = last_p]]
        RECURSIVE windows(_, _, _)
        windows(s, ancestors, k) ==
            IF s.fault # "None" \/ k >= Len(ancestors) THEN s
            ELSE windows(rotate(s, ancestors[k], ancestors[k + 1]), ancestors, k + 1)
        RECURSIVE shift(_, _, _, _)
        shift(s, now, delta, fuel) ==
            IF now = NONE THEN s
            ELSE IF now \notin DOMAIN s.nodes THEN [s EXCEPT !.fault = "Panic"]
            ELSE IF fuel = 0 THEN [s EXCEPT !.fault = "Diverge"]
            ELSE IF now = s.last_descendent_dft[new_root] THEN [s EXCEPT !.nodes[now].potential = @ + delta]
            ELSE shift([s EXCEPT !.nodes[now].potential = @ + delta], s.next_node_dft[now], delta, fuel - 1)
        potentials(s) ==
            IF s.fault # "None" THEN s
            ELSE shift(s, new_root, re_rooting_delta(s, new_root, entering_edge_id), Fuel)
        climbed(a) == IF a.fault # "None" THEN [st EXCEPT !.fault = a.fault]
                      ELSE potentials(windows(st, a.ancestors, 1))
    IN  IF st.fault # "None" THEN st ELSE climbed(climb(new_root, <<>>, Fuel))

leaving_edge_state_always_lower(leaving_edge) == "Lower"

\* the state detach_tree gives the arc that leaves the tree
leaving_edge_state(leaving_edge) == IF leaving_edge.flow = 0 THEN "Lower" ELSE "Upper"

\* takes the leaving arc out of the tree and the subtree below it out of the
\* thread; the arc goes to the bound its flow is at
detach_tree(st, sub_tree_root, leaving_edge_id) ==
    LET prev_t == st.prev_node_dft[sub_tree_root]
        last_t == st.last_descendent_dft[sub_tree_root]
        next_last_t == IF last_t \in DOMAIN st.next_node_dft THEN st.next_node_dft[last_t] ELSE NONE
        sub_tree_size == st.num_successors[sub_tree_root]
        RECURSIVE shrink(_, _, _)
        shrink(s, now, fuel) ==
            IF now = NONE THEN s
            ELSE IF now \notin DOMAIN s.nodes \/ s.num_successors[now] < sub_tree_size
            THEN [s EXCEPT !.fault = "Panic"]
            ELSE IF fuel = 0 THEN [s EXCEPT !.fault = "Diverge"]
            ELSE shrink([s EXCEPT !.num_successors[now] = @ - sub_tree_size,
                                  !.last_descendent_dft[now] = IF @ = last_t THEN prev_t ELSE @],
                        s.nodes[now].parent, fuel - 1)
    IN  IF st.fault # "None" THEN st
        ELSE IF sub_tree_root \notin DOMAIN st.nodes \/ ~({prev_t, last_t, next_last_t} \subseteq DOMAIN st.nodes)
        THEN [st EXCEPT !.fault = "Panic"]
        ELSE shrink([st EXCEPT
                        !.edges[leaving_edge_id].state = leaving_edge_state(st.edges[leaving_edge_id]),
                        !.nodes[sub_tree_root] = [@ EXCEPT !.parent = NONE, !.parent_edge_id = NONE],
                        !.next_node_dft = [st.next_node_dft EXCEPT ![prev_t] = next_last_t, ![last_t] = sub_tree_root],
                        !.prev_node_dft = [st.prev_node_dft EXCEPT ![next_last_t] = prev_t, ![sub_tree_root] = last_t]],
                    opposite_side(st.edges[leaving_edge_id], sub_tree_root), Fuel)

\* hangs the tree of sub_tree_root below attach_node by the entering arc
attach_tree(st, attach_node, sub_tree_root, entering_edge_id) ==
    LET q == sub_tree_root
        last_p == st.last_descendent_dft[attach_node]
        next_last_p == IF last_p \in DOMAIN st.next_node_dft THEN st.next_node_dft[last_p] ELSE NONE
        last_q == st.last_descendent_dft[q]
        sub_tree_size == st.num_successors[q]
        RECURSIVE grow(_, _, _)
        grow(s, now, fuel) ==
            IF now = NONE THEN s
            ELSE IF now \notin DOMAIN s.nodes THEN [s EXCEPT !.fault = "Panic"]
            ELSE IF fuel = 0 THEN [s EXCEPT !.fault = "Diverge"]
            ELSE grow([s EXCEPT !.num_successors[now] = @ + sub_tree_size,
                                !.last_descendent_dft[now] = IF @ = last_p THEN last_q ELSE @],
                      s.nodes[now].parent, fuel - 1)
    IN  IF st.fault # "None" THEN st
        ELSE IF ~({attach_node, q} \subseteq DOMAIN st.nodes) \/ ~({last_p, next_last_p, last_q} \subseteq DOMAIN st.nodes)
        THEN [st EXCEPT !.fault = "Panic"]
        ELSE grow([st EXCEPT
                      !.edges[entering_edge_id].state = "Tree",
                      !.nodes[q] = [@ EXCEPT !.parent = attach_node, !.parent_edge_id = entering_edge_id],
                      !.next_node_dft = [st.next_node_dft EXCEPT ![last_p] = q, ![last_q] = next_last_p],
                      !.prev_node_dft = [st.prev_node_dft EXCEPT ![q] = last_p, ![next_last_p] = last_q]],
                  attach_node, Fuel)

\* Dijkstra from src over all arcs by cost, whatever their capacity; a node
\* that is not reached keeps the distance total_cost + 1 and no prev_edge_id
shortest_path(st, src) ==
    LET RECURSIVE scan(_, _, _, _, _, _)
        scan(u, now_dist, edge_id, bh, distances, prev_edge_id) ==
            IF edge_id >= VecLen(st.edges) THEN [bh |-> bh, distances |-> distances, prev_edge_id |-> prev_edge_id]
            ELSE LET edge == st.edges[edge_id]
                 IN  IF edge.from = u /\ now_dist + edge.cost < distances[edge.to]
                     THEN scan(u, now_dist, edge_id + 1, bh \cup {<<now_dist + edge.cost, edge.to>>},
                               [distances EXCEPT ![edge.to] = now_dist + edge.cost],
                               [prev_edge_id EXCEPT ![edge.to] = Some(edge_id)])
                     ELSE scan(u, now_dist, edge_id + 1, bh, distances, prev_edge_id)
        RECURSIVE pop(_, _, _, _)
        pop(bh, seen, distances, prev_edge_id) ==
            IF bh = {} THEN [distances |-> distances, prev_edge_id |-> prev_edge_id]
            ELSE LET top == HeapTop(bh)
                     u == top[2]
                     resume(r) == pop(r.bh, [seen EXCEPT ![u] = TRUE], r.distances, r.prev_edge_id)
                 IN  IF seen[u] THEN pop(bh \ {top}, seen, distances, prev_edge_id)
                     ELSE resume(scan(u, top[1], 0, bh \ {top}, distances, prev_edge_id))
    IN  pop({<<0, src>>}, VecNew(st.num_nodes, FALSE),
            [VecNew(st.num_nodes, VecSum([i \in DOMAIN st.edges |-> st.edges[i].cost], 0) + 1) EXCEPT ![src] = 0],
            VecNew(st.num_nodes, <<>>))

satisfy_constraints(st) ==
    /\ \A i \in DOMAIN st.edges : 0 <= st.edges[i].flow /\ st.edges[i].flow <= st.edges[i].upper
    /\ \A u \in DOMAIN st.excesses : st.excesses[u] = 0

\* -------------------------- minimum_cost_flow::network_simplex_pivot_rules
\* A pivot rule is a record with the fields of its struct and its kind.
\* find_entering_edge gives the rule after the call, the arc found
\* (Option) and a fault ("Panic" for an index out of bounds).
BestEligibleArcPivotRule(num_edges) == [kind |-> "BestEligibleArc"]

FirstEligibleArcPivotRule(num_edges) == [kind |-> "FirstEligibleArc", current_edge_id |-> 0]

\* (factor * sqrt(num_edges)) as usize, the factor given as 1 / per
scaled_sqrt(num_edges, per) ==
    CHOOSE k \in 0..num_edges : per * per * k * k <= num_edges /\ num_edges < per * per * (k + 1) * (k + 1)

BlockSearchPivotRule(num_edges) ==
    [kind |-> "BlockSearch", current_edge_id |-> 0, block_size |-> Max(10, scaled_sqrt(num_edges, 1))]

CandidateListPivotRule(num_edges) ==
    LET candidate_list_size == Max(10, scaled_sqrt(num_edges, 4))
    IN  [kind |-> "CandidateList", current_edge_id |-> 0, candidates |-> VecNew(candidate_list_size, NONE),
         candidate_list_size |-> candidate_list_size, current_size |-> 0,
         minor_count_limit |-> Max(3, candidate_list_size \div 10), minor_count |-> 0]

AlteringCandidateListPivotRule(num_edges) ==
    LET block_size == Max(10, scaled_sqrt(num_edges, 1))
        head_length == Max(3, block_size \div 100)
    IN  [kind |-> "AlteringCandidateList", current_edge_id |-> 0, block_size |-> block_size,
         head_length |-> head_length, candidates |-> VecNew(head_length + block_size, <<NONE, 0>>),
         current_size |-> 0]

\* new_with_parameter with the two factors given as 1 / block_per and
\* 1 / head_per
altering_new_with_parameter(num_edges, min_block_size, block_per, min_head_length, head_per) ==
    LET block_size == Max(min_block_size, scaled_sqrt(num_edges, block_per))
        head_length == Max(min_head_length, block_size \div head_per)
    IN  [kind |-> "AlteringCandidateList", current_edge_id |-> 0, block_size |-> block_size,
         head_length |-> head_length, candidates |-> VecNew(head_length + block_size, <<NONE, 0>>),
         current_size |-> 0]

\* the violation of an arc taken to be at its lower bound whatever its state
primal_calculate_violation_at_lower(edge, st) == -st_reduced_cost(st, edge)

primal_calculate_violation(edge, st) ==
    IF edge.state = "Upper" THEN st_reduced_cost(st, edge) ELSE -st_reduced_cost(st, edge)

dual_calculate_violation(edge, st) ==
    IF edge.flow < 0 THEN -edge.flow
    ELSE IF edge.flow > edge.upper THEN edge.flow - edge.upper
    ELSE 0

\* the closure a network simplex method hands to find_entering_edge: its own
\* calculate_violation
calculate_violation(method, edge, st) ==
    IF method = "Primal" THEN primal_calculate_violation(edge, st)
    ELSE dual_calculate_violation(edge, st)

best_eligible_arc_find_entering_edge(pv, st, method) ==
    LET RECURSIVE scan(_, _, _)
        scan(edge_id, maxi_violation, entering_edge_id) ==
            IF edge_id >= VecLen(st.edges) THEN entering_edge_id
            ELSE IF calculate_violation(method, st.edges[edge_id], st) > maxi_violation
            THEN scan(edge_id + 1, calculate_violation(method, st.edges[edge_id], st), Some(edge_id))
            ELSE scan(edge_id + 1, maxi_violation, entering_edge_id)
    IN  [pivot |-> pv, edge |-> scan(0, 0, <<>>), fault |-> "None"]

first_eligible_arc_find_entering_edge(pv, st, method) ==
    LET RECURSIVE scan(_, _)
        scan(k, current_edge_id) ==
            IF k >= st.num_edges
            THEN [pivot |-> [pv EXCEPT !.current_edge_id = current_edge_id], edge |-> <<>>, fault |-> "None"]
            ELSE IF current_edge_id \notin DOMAIN st.edges THEN [pivot |-> pv, edge |-> <<>>, fault |-> "Panic"]
            ELSE IF calculate_violation(method, st.edges[current_edge_id], st) > 0
            THEN [pivot |-> [pv EXCEPT !.current_edge_id = current_edge_id], edge |-> Some(current_edge_id),
                  fault |-> "None"]
            ELSE scan(k + 1, IF current_edge_id + 1 = st.num_edges THEN 0 ELSE current_edge_id + 1)
    IN  scan(0, pv.current_edge_id)

block_search_find_entering_edge(pv, st, method) ==
    LET RECURSIVE scan(_, _, _, _, _)
        scan(k, current_edge_id, maxi_violation, entering_edge_id, count) ==
            IF k >= st.num_edges
            THEN [pivot |-> [pv EXCEPT !.current_edge_id = current_edge_id], edge |-> entering_edge_id,
                  fault |-> "None"]
            ELSE IF current_edge_id \notin DOMAIN st.edges THEN [pivot |-> pv, edge |-> <<>>, fault |-> "Panic"]
            ELSE LET counted(maxi, entering) ==
                         IF count - 1 = 0 /\ entering # <<>>
                         THEN [pivot |-> [pv EXCEPT !.current_edge_id = current_edge_id], edge |-> entering,
                               fault |-> "None"]
                         ELSE scan(k + 1, IF current_edge_id + 1 = st.num_edges THEN 0 ELSE current_edge_id + 1,
                                   maxi, entering, IF count - 1 = 0 THEN pv.block_size ELSE count - 1)
                 IN  IF calculate_violation(method, st.edges[current_edge_id], st) > maxi_violation
                     THEN counted(calculate_violation(method, st.edges[current_edge_id], st), Some(current_edge_id))
                     ELSE counted(maxi_violation, entering_edge_id)
    IN  scan(0, pv.current_edge_id, 0, <<>>, pv.block_size)

\* the violation used when the list is rebuilt is the primal one, whatever
\* calculate_violation is, and a rebuilt list holds positions, not arcs
candidate_list_find_entering_edge(pv, st, method) ==
    LET rebuilt_violation(edge) ==
            IF edge.state = "Upper" THEN st_reduced_cost(st, edge) ELSE -st_reduced_cost(st, edge)
        RECURSIVE minor(_, _, _, _)
        \* result: the list after the ineligible arcs are dropped, and the best arc
        minor(p, i, maxi_violation, entering_edge_id) ==
            IF ~(i < p.current_size)
            THEN [pivot |-> p, edge |-> entering_edge_id, maxi_violation |-> maxi_violation, fault |-> "None"]
            ELSE IF p.candidates[i] \notin DOMAIN st.edges
            THEN [pivot |-> p, edge |-> <<>>, maxi_violation |-> maxi_violation, fault |-> "Panic"]
            ELSE IF calculate_violation(method, st.edges[p.candidates[i]], st) <= 0
            THEN minor([p EXCEPT !.current_size = @ - 1, !.candidates[i] = p.candidates[p.current_size - 1]],
                       i, maxi_violation, entering_edge_id)
            ELSE IF calculate_violation(method, st.edges[p.candidates[i]], st) > maxi_violation
            THEN minor(p, i + 1, calculate_violation(method, st.edges[p.candidates[i]], st), Some(p.candidates[i]))
            ELSE minor(p, i + 1, maxi_violation, entering_edge_id)
        RECURSIVE major(_, _, _, _)
        major(p, k, maxi_violation, entering_edge_id) ==
            IF k >= st.num_edges
            THEN [pivot |-> [p EXCEPT !.minor_count = 1], edge |-> entering_edge_id, fault |-> "None"]
            ELSE IF p.current_edge_id \notin DOMAIN st.edges THEN [pivot |-> p, edge |-> <<>>, fault |-> "Panic"]
            ELSE LET violation == rebuilt_violation(st.edges[p.current_edge_id])
                     listed == IF violation > 0
                               THEN [p EXCEPT !.candidates[p.current_size] = p.current_size, !.current_size = @ + 1]
                               ELSE p
                     entering == IF violation > 0 /\ violation > maxi_violation
                                 THEN Some(p.current_edge_id) ELSE entering_edge_id
                 IN  IF listed.current_size = p.candidate_list_size
                     THEN [pivot |-> [listed EXCEPT !.minor_count = 1], edge |-> entering, fault |-> "None"]
                     ELSE major([listed EXCEPT !.current_edge_id = IF @ + 1 = st.num_edges THEN 0 ELSE @ + 1],
                                k + 1, IF violation > 0 THEN Max(violation, maxi_violation) ELSE maxi_violation,
                                entering)
        after_minor(r) ==
            IF r.fault # "None" \/ r.edge # <<>> THEN [pivot |-> r.pivot, edge |-> r.edge, fault |-> r.fault]
            ELSE major([r.pivot EXCEPT !.current_size = 0], 0, r.maxi_violation, r.edge)
    IN  IF pv.current_size > 0 /\ pv.minor_count < pv.minor_count_limit
        THEN after_minor(minor([pv EXCEPT !.minor_count = @ + 1], 0, 0, <<>>))
        ELSE major([pv EXCEPT !.current_size = 0], 0, 0, <<>>)

\* listed is the candidate list the entering arc is selected from, as it is
\* after the block scan and before it is put in order.
\* The list is put in order as the standard library does it for a slice
\* this short: sort_unstable_by is an insertion sort (largest violation
\* first, equal ones in their old order), and select_nth_unstable_by is the
\* same unless the index is the last one, when only the element that
\* belongs there is swapped into it.
altering_candidate_list_find_entering_edge(pv, st, method) ==
    LET extended_violation(edge) ==
            IF edge.state = "Upper" THEN st_reduced_cost(st, edge) ELSE -st_reduced_cost(st, edge)
        RECURSIVE update(_, _)
        update(p, i) ==
            IF ~(i < p.current_size) THEN p
            ELSE IF calculate_violation(method, st.edges[p.candidates[i][1]], st) <= 0
            THEN update([p EXCEPT !.current_size = @ - 1, !.candidates[i] = p.candidates[p.current_size - 1]], i)
            ELSE update([p EXCEPT !.candidates[i] =
                            <<@[1], calculate_violation(method, st.edges[p.candidates[i][1]], st)>>], i + 1)
        RECURSIVE extend(_, _, _, _)
        extend(p, k, block_count, limit) ==
            IF k >= st.num_edges THEN [pivot |-> p, fault |-> "None"]
            ELSE IF p.current_edge_id \notin DOMAIN st.edges THEN [pivot |-> p, fault |-> "Panic"]
            ELSE LET violation == extended_violation(st.edges[p.current_edge_id])
                     added == IF violation > 0
                              THEN [p EXCEPT !.candidates[p.current_size] = <<p.current_edge_id, violation>>,
                                             !.current_size = @ + 1]
                              ELSE p
                 IN  IF violation > 0 /\ p.current_size \notin DOMAIN p.candidates
                     THEN [pivot |-> p, fault |-> "Panic"]
                     ELSE IF block_count - 1 = 0 /\ added.current_size > limit
                     THEN [pivot |-> added, fault |-> "None"]
                     ELSE extend([added EXCEPT !.current_edge_id = IF @ + 1 = st.num_edges THEN 0 ELSE @ + 1],
                                 k + 1, IF block_count - 1 = 0 THEN p.block_size ELSE block_count - 1,
                                 IF block_count - 1 = 0 THEN 0 ELSE limit)
        RECURSIVE insertion_sort(_, _, _)
        insertion_sort(part, k, sorted) ==
            IF k > Len(part) THEN sorted
            ELSE LET before == Cardinality({j \in 1..Len(sorted) : sorted[j][2] >= part[k][2]})
                 IN  insertion_sort(part, k + 1,
                                    SubSeq(sorted, 1, before) \o <<part[k]>> \o SubSeq(sorted, before + 1, Len(sorted)))
        max_to_end(part) ==
            LET mi == CHOOSE j \in 1..Len(part) :
                          /\ \A i \in 1..Len(part) : part[j][2] <= part[i][2]
                          /\ \A i \in 1..(j - 1) : part[i][2] > part[j][2]
            IN  [part EXCEPT ![mi] = part[Len(part)], ![Len(part)] = part[mi]]
        chosen(p, new_length, ordered, part) ==
            [pivot |-> [p EXCEPT !.candidates = [[i \in DOMAIN p.candidates |->
                                                     IF i < p.current_size THEN ordered[i + 1] ELSE p.candidates[i]]
                                                 EXCEPT ![0] = ordered[new_length]],
                                 !.current_size = new_length - 1],
             edge |-> Some(ordered[1][1]), fault |-> "None", listed |-> part]
        select(p, new_length, part) ==
            chosen(p, new_length,
                   IF new_length = p.current_size \/ new_length # p.current_size - 1
                   THEN insertion_sort(part, 1, <<>>) ELSE max_to_end(part), part)
        extended(r) ==
            IF r.fault # "None" THEN [pivot |-> r.pivot, edge |-> <<>>, fault |-> r.fault, listed |-> <<>>]
            ELSE IF r.pivot.current_size = 0
            THEN [pivot |-> r.pivot, edge |-> <<>>, fault |-> "None", listed |-> <<>>]
            ELSE select(r.pivot, Min(r.pivot.current_size, r.pivot.head_length + 1),
                        [i \in 1..r.pivot.current_size |-> r.pivot.candidates[i - 1]])
    IN  extended(extend(update(pv, 0), 0, pv.block_size, pv.head_length))

\* PivotRule::find_entering_edge of the rule pv
find_entering_edge(pv, st, method) ==
    CASE pv.kind = "BestEligibleArc" -> best_eligible_arc_find_entering_edge(pv, st, method)
      [] pv.kind = "FirstEligibleArc" -> first_eligible_arc_find_entering_edge(pv, st, method)
      [] pv.kind = "BlockSearch" -> block_search_find_entering_edge(pv, st, method)
      [] pv.kind = "CandidateList" -> candidate_list_find_entering_edge(pv, st, method)
      [] pv.kind = "AlteringCandidateList" -> altering_candidate_list_find_entering_edge(pv, st, method)

\* what a call of find_entering_edge that returned was given and gave back:
\* the violation of every arc of the structure under the function of the
\* method, in the tree state of the call, the returned Option, the fields of
\* the rule before and after the call, and for the altering candidate list
\* the list the arc was selected from
entering_edge_call(method, st, pv, found) ==
    [violation |-> [edge_id \in 0..(st.num_edges - 1) |-> calculate_violation(method, st.edges[edge_id], st)],
     ret |-> found.edge, st |-> st, rule |-> pv, rule_after |-> found.pivot,
     listed |-> IF pv.kind = "AlteringCandidateList" THEN found.listed ELSE <<>>]

\* --------------------------------- minimum_cost_flow::primal_network_simplex
\* every node hangs below the root by its artificial arc, which carries its
\* excess (the excesses of the graph are zero already)
primal_make_initial_spanning_tree_structure(st, g, artificial_edges, inf_cost) ==
    LET RECURSIVE hang(_, _, _)
        hang(s, k, prev_node) ==
            IF k > Len(artificial_edges)
            THEN [s EXCEPT !.next_node_dft[prev_node] = s.root, !.prev_node_dft[s.root] = prev_node,
                           !.last_descendent_dft[s.root] = prev_node, !.num_successors[s.root] = g.num_nodes]
            ELSE LET edge_id == artificial_edges[k]
                     edge == g.edges[edge_id]
                     u == IF edge.from = s.root THEN edge.to ELSE edge.from
                 IN  hang([s EXCEPT !.nodes[u] = [parent |-> s.root, parent_edge_id |-> edge_id,
                                                  potential |-> IF edge.from = u THEN inf_cost ELSE -inf_cost],
                                    !.edges[edge_id].state = "Tree",
                                    !.next_node_dft[prev_node] = u,
                                    !.prev_node_dft[u] = prev_node,
                                    !.last_descendent_dft[u] = u,
                                    !.num_successors[u] = 1],
                          k + 1, u)
    IN  IF st.fault # "None" THEN st ELSE hang(st, 1, st.root)

\* the first blocking arc on the side of from, the last one on the side of
\* to; the entering arc itself when no tree arc blocks before it does
select_leaving_edge(st, entering_edge_id) ==
    LET entering_edge == st.edges[entering_edge_id]
        from == IF entering_edge.state = "Lower" THEN entering_edge.from ELSE entering_edge.to
        to == IF entering_edge.state = "Lower" THEN entering_edge.to ELSE entering_edge.from
        RECURSIVE climb(_, _, _, _)
        climb(u, v, b, fuel) ==
            IF b.fault # "None" THEN b
            ELSE IF u = v THEN [b EXCEPT !.apex = u]
            ELSE IF ~({u, v} \subseteq DOMAIN st.nodes) THEN [b EXCEPT !.fault = "Panic"]
            ELSE IF fuel = 0 THEN [b EXCEPT !.fault = "Diverge"]
            ELSE LET u_num == st.num_successors[u]
                     v_num == st.num_successors[v]
                     eu == st.nodes[u].parent_edge_id
                     ev == st.nodes[v].parent_edge_id
                     first(c) ==
                         IF ~(u_num <= v_num) THEN c
                         ELSE IF eu \notin DOMAIN st.edges THEN [c EXCEPT !.fault = "Panic"]
                         ELSE IF (IF u = st.edges[eu].to THEN residual_capacity(st.edges[eu]) ELSE st.edges[eu].flow)
                                 < c.delta
                         THEN [c EXCEPT !.leaving_edge_id = eu,
                                        !.delta = IF u = st.edges[eu].to THEN residual_capacity(st.edges[eu])
                                                  ELSE st.edges[eu].flow,
                                        !.t2_now_root = u, !.t2_new_root = from]
                         ELSE c
                     second(c) ==
                         IF c.fault # "None" \/ ~(v_num <= u_num) THEN c
                         ELSE IF ev \notin DOMAIN st.edges THEN [c EXCEPT !.fault = "Panic"]
                         ELSE IF (IF v = st.edges[ev].from THEN residual_capacity(st.edges[ev]) ELSE st.edges[ev].flow)
                                 <= c.delta
                         THEN [c EXCEPT !.leaving_edge_id = ev,
                                        !.delta = IF v = st.edges[ev].from THEN residual_capacity(st.edges[ev])
                                                  ELSE st.edges[ev].flow,
                                        !.t2_now_root = v, !.t2_new_root = to]
                         ELSE c
                 IN  climb(IF u_num <= v_num THEN st.nodes[u].parent ELSE u,
                           IF v_num <= u_num THEN st.nodes[v].parent ELSE v, second(first(b)), fuel - 1)
    IN  IF entering_edge.state = "Tree"
        THEN [fault |-> "Panic", leaving_edge_id |-> entering_edge_id, apex |-> NONE, delta |-> 0,
              t2_now_root |-> NONE, t2_new_root |-> NONE]
        ELSE climb(from, to,
                   [fault |-> "None", leaving_edge_id |-> entering_edge_id, apex |-> NONE,
                    delta |-> entering_edge.upper, t2_now_root |-> NONE, t2_new_root |-> NONE], Fuel)

primal_pivot(st, leaving_edge_id, entering_edge_id, t2_now_root, t2_new_root) ==
    LET rooted(s, t1_new_root) ==
            IF s.fault # "None" THEN s
            ELSE IF s.nodes[t1_new_root].parent # NONE THEN [s EXCEPT !.fault = "Panic"]
            ELSE [s EXCEPT !.root = t1_new_root]
        entered(s, t1_new_root, new_root, new_attach_node) ==
            rooted(attach_tree(re_rooting(s, new_root, entering_edge_id), new_attach_node, new_root,
                               entering_edge_id), t1_new_root)
        detached(s) ==
            IF s.fault # "None" THEN s
            ELSE IF s.num_successors[t2_now_root] * 2 >= s.num_nodes
            THEN entered(s, t2_now_root, opposite_side(s.edges[entering_edge_id], t2_new_root), t2_new_root)
            ELSE entered(s, s.root, t2_new_root, opposite_side(s.edges[entering_edge_id], t2_new_root))
    IN  IF st.fault # "None" THEN st
        ELSE IF leaving_edge_id = entering_edge_id
        THEN IF st.edges[entering_edge_id].state = "Tree" THEN [st EXCEPT !.fault = "Panic"]
             ELSE [st EXCEPT !.edges[entering_edge_id].state = IF @ = "Upper" THEN "Lower" ELSE "Upper"]
        ELSE detached(detach_tree(st, t2_now_root, leaving_edge_id))

primal_run(st, pv, artificial_edges) ==
    LET RECURSIVE loop(_, _, _, _)
        loop(s, p, fuel, trace) ==
            LET left(l, entering_edge_id) ==
                    IF l.fault # "None" THEN [s EXCEPT !.fault = l.fault]
                    ELSE primal_pivot(update_flow_in_cycle(s, entering_edge_id, l.delta, l.apex),
                                      l.leaving_edge_id, entering_edge_id, l.t2_now_root, l.t2_new_root)
                found(f) ==
                    IF f.fault # "None" THEN [st |-> [s EXCEPT !.fault = f.fault], pivot |-> f.pivot, trace |-> trace]
                    ELSE IF f.edge = <<>>
                    THEN [st |-> s, pivot |-> f.pivot,
                          trace |-> Append(trace, entering_edge_call("Primal", s, p, f))]
                    ELSE loop(left(select_leaving_edge(s, f.edge[1]), f.edge[1]), f.pivot, fuel - 1,
                              Append(trace, entering_edge_call("Primal", s, p, f)))
            IN  IF s.fault # "None" THEN [st |-> s, pivot |-> p, trace |-> trace]
                ELSE IF fuel = 0 THEN [st |-> [s EXCEPT !.fault = "Diverge"], pivot |-> p, trace |-> trace]
                ELSE found(find_entering_edge(p, s, "Primal"))
        RECURSIVE revert(_, _)
        \* the flow left on an artificial arc goes back into the excesses
        revert(s, k) ==
            IF s.fault # "None" \/ k > Len(artificial_edges) THEN s
            ELSE LET edge == s.edges[artificial_edges[k]]
                 IN  IF edge.flow > 0
                     THEN revert([s EXCEPT !.excesses = [[@ EXCEPT ![edge.from] = @ + edge.flow]
                                                            EXCEPT ![edge.to] = @ - edge.flow],
                                           !.edges[artificial_edges[k]].flow = 0], k + 1)
                     ELSE revert(s, k + 1)
        reverted(r) == [st |-> revert(r.st, 1), pivot |-> r.pivot, trace |-> r.trace]
    IN  reverted(loop(st, pv, Fuel, <<>>))

primal_network_simplex_solve(self, pv, g) ==
    LET finish(ext, s, trace) ==
            IF s.fault # "None" THEN [status |-> s.fault, graph |-> ext.graph, self |-> s, trace |-> trace]
            ELSE [status |-> IF satisfy_constraints(s) THEN "Optimal" ELSE "Infeasible",
                  graph |-> remove_artificial_sub_graph(
                                [ext.graph EXCEPT !.excesses = s.excesses,
                                                  !.edges = [edge_id \in DOMAIN @ |->
                                                      [@[edge_id] EXCEPT !.flow = s.edges[edge_id].flow]]],
                                ext.artificial_nodes, ext.artificial_edges),
                  self |-> s, trace |-> trace]
        ran(ext, r) == finish(ext, r.st, r.trace)
        built(ext, s, inf_cost) ==
            ran(ext, primal_run(primal_make_initial_spanning_tree_structure(
                                    [s EXCEPT !.root = ext.root,
                                              !.nodes[ext.root] = [@ EXCEPT !.parent = NONE, !.parent_edge_id = NONE]],
                                    ext.graph, ext.artificial_edges, inf_cost),
                                pv, ext.artificial_edges))
        extended(ext, inf_cost) == built(ext, st_build(self, ext.graph), inf_cost)
    IN  IF is_unbalance(g) THEN [status |-> "Unbalanced", graph |-> g, self |-> self, trace |-> <<>>]
        ELSE extended(construct_extend_network_feasible_solution(g),
                      1 + VecSum([i \in DOMAIN g.edges |-> g.edges[i].cost], 0))


\* ----------------------------- minimum_cost_flow::parametric_network_simplex
\* the tree of the shortest paths from the root, threaded in depth-first
\* order; ok is FALSE when no path reaches the sink
parametric_make_initial_spanning_tree_structure(st, snk) ==
    LET RECURSIVE make_tree(_, _, _, _)
        make_tree(s, children, u, prev_edge_id) ==
            IF u >= VecLen(prev_edge_id) THEN [st |-> s, children |-> children]
            ELSE IF prev_edge_id[u] = <<>> THEN make_tree(s, children, u + 1, prev_edge_id)
            ELSE LET edge_id == prev_edge_id[u][1]
                     edge == s.edges[edge_id]
                 IN  make_tree([s EXCEPT !.edges[edge_id].state = "Tree",
                                         !.nodes[edge.to] = [@ EXCEPT !.parent = edge.from,
                                                                      !.parent_edge_id = edge_id]],
                               [children EXCEPT ![edge.from] = Append(@, edge.to)], u + 1, prev_edge_id)
        RECURSIVE thread(_, _, _, _, _)
        thread(s, children, stack, prev_node, seen) ==
            IF stack = <<>> THEN [s EXCEPT !.next_node_dft[prev_node] = s.root]
            ELSE LET u == stack[Len(stack)][1]
                     parent == stack[Len(stack)][2]
                     rest == SubSeq(stack, 1, Len(stack) - 1)
                     counted(c) ==
                         IF parent = NONE THEN c
                         ELSE [c EXCEPT !.last_descendent_dft[parent] = c.last_descendent_dft[u],
                                        !.num_successors[c.nodes[u].parent] = @ + c.num_successors[u]]
                 IN  IF seen[u]
                     THEN thread(counted([s EXCEPT !.num_successors[u] = @ + 1]), children, rest, prev_node, seen)
                     ELSE thread([s EXCEPT !.prev_node_dft[u] = prev_node,
                                           !.next_node_dft = IF prev_node # NONE THEN [@ EXCEPT ![prev_node] = u]
                                                             ELSE @],
                                 children,
                                 rest \o <<<<u, parent>>>>
                                      \o [i \in 1..Len(children[u]) |-> <<children[u][Len(children[u]) + 1 - i], u>>],
                                 u, [seen EXCEPT ![u] = TRUE])
        potentials(s, distances) ==
            [s EXCEPT !.nodes = [u \in DOMAIN @ |-> [@[u] EXCEPT !.potential = -distances[u]]]]
        threaded(s, distances) == [ok |-> TRUE, st |-> potentials(s, distances)]
        rooted(r, distances) ==
            threaded(thread([r.st EXCEPT !.nodes[r.st.root] = [@ EXCEPT !.parent = NONE, !.parent_edge_id = NONE],
                                         !.last_descendent_dft = [u \in 0..(r.st.num_nodes - 1) |-> u]],
                            r.children, <<<<r.st.root, NONE>>>>, NONE, VecNew(r.st.num_nodes, FALSE)),
                     distances)
        found(sp) ==
            IF sp.prev_edge_id[snk] = <<>> THEN [ok |-> FALSE, st |-> st]
            ELSE rooted(make_tree(st, VecNew(st.num_nodes, <<>>), 0, sp.prev_edge_id), sp.distances)
    IN  IF st.fault # "None" THEN [ok |-> TRUE, st |-> st] ELSE found(shortest_path(st, st.root))

\* ----------------------------------- minimum_cost_flow::dual_network_simplex
DualNetworkSimplexDefault == [st |-> SpanningTreeStructureDefault, sink |-> 0]

\* the same tree as make_initial_spanning_tree_structure of the parametric
\* method builds (the two functions share their code up to the potentials),
\* then the excess of the root is sent along the tree path to the sink
dual_make_initial_spanning_tree_structure(st, snk) ==
    LET sent(s) ==
            IF s.fault # "None" THEN [ok |-> TRUE, st |-> s]
            ELSE IF s.excesses[s.root] = 0 /\ s.excesses[snk] = 0 THEN [ok |-> TRUE, st |-> s]
            ELSE [ok |-> TRUE, st |-> [s EXCEPT !.fault = "Panic"]]
        made(i) ==
            IF ~i.ok \/ i.st.fault # "None" THEN i
            ELSE sent(update_flow_in_path(i.st, i.st.root, snk, i.st.excesses[i.st.root]))
    IN  made(parametric_make_initial_spanning_tree_structure(st, snk))

\* is_t1_node of select_entering_edge_id: the nodes left with the root once
\* the subtree of t2_now_root is cut off, found along the thread
t1_nodes(st, t2_now_root) ==
    LET RECURSIVE mark(_, _, _)
        mark(is_t1_node, now, fuel) ==
            IF now \notin DOMAIN is_t1_node THEN [fault |-> "Panic", is_t1_node |-> is_t1_node]
            ELSE IF fuel = 0 THEN [fault |-> "Diverge", is_t1_node |-> is_t1_node]
            ELSE LET following == st.next_node_dft[now]
                     step(next) ==
                         IF next = st.root
                         THEN [fault |-> "None", is_t1_node |-> [is_t1_node EXCEPT ![now] = TRUE]]
                         ELSE mark([is_t1_node EXCEPT ![now] = TRUE], next, fuel - 1)
                 IN  IF following # t2_now_root THEN step(following)
                     ELSE IF following \notin DOMAIN st.nodes
                             \/ st.last_descendent_dft[following] \notin DOMAIN st.nodes
                     THEN [fault |-> "Panic", is_t1_node |-> is_t1_node]
                     ELSE step(st.next_node_dft[st.last_descendent_dft[following]])
    IN  mark(VecNew(st.num_nodes, FALSE), st.root, Fuel)

\* the arc between the two parts, against the leaving arc, of least reduced
\* cost; entering_edge_id is None when there is none
dual_select_entering_edge_id(st, leaving_edge_id, t2_now_root) ==
    LET chosen(is_t1_node) ==
            LET flow_direction_t1_t2(edge) ==
                    \/ is_t1_node[edge.from] /\ ~is_t1_node[edge.to] /\ edge.flow <= 0
                    \/ ~is_t1_node[edge.from] /\ is_t1_node[edge.to] /\ edge.flow >= edge.upper
                leaving_edge_flow_direction == flow_direction_t1_t2(st.edges[leaving_edge_id])
                RECURSIVE scan(_, _)
                scan(r, edge_id) ==
                    IF r.fault # "None" \/ edge_id >= VecLen(st.edges) THEN r
                    ELSE LET edge == st.edges[edge_id]
                             entering_edge_flow_direction == flow_direction_t1_t2(edge)
                             entering_reduced_cost == IF edge.state = "Lower" THEN st_reduced_cost(st, edge)
                                             ELSE -st_reduced_cost(st, edge)
                         IN  IF edge.state = "Tree" \/ edge.upper = 0 THEN scan(r, edge_id + 1)
                             ELSE IF leaving_edge_flow_direction = entering_edge_flow_direction
                                     \/ is_t1_node[edge.from] = is_t1_node[edge.to]
                             THEN scan(r, edge_id + 1)
                             ELSE IF ~(entering_reduced_cost >= 0) THEN [r EXCEPT !.fault = "Panic"]
                             ELSE IF entering_reduced_cost < r.mini_delta \/ r.entering_edge_id = <<>>
                             THEN scan([r EXCEPT !.mini_delta = entering_reduced_cost,
                                                 !.entering_edge_id = Some(edge_id),
                                                 !.t2_new_root =
                                                     IF \/ entering_edge_flow_direction /\ edge.state = "Lower"
                                                        \/ ~entering_edge_flow_direction /\ edge.state = "Upper"
                                                     THEN Some(edge.to) ELSE Some(edge.from)],
                                       edge_id + 1)
                             ELSE scan(r, edge_id + 1)
            IN  scan([fault |-> "None", entering_edge_id |-> <<>>, t2_new_root |-> <<>>, mini_delta |-> 0], 0)
        marked(m) ==
            IF m.fault # "None"
            THEN [fault |-> m.fault, entering_edge_id |-> <<>>, t2_new_root |-> <<>>, mini_delta |-> 0]
            ELSE chosen(m.is_t1_node)
    IN  marked(t1_nodes(st, t2_now_root))

find_apex(st, entering_edge_id) ==
    LET RECURSIVE climb(_, _, _)
        climb(u, v, fuel) ==
            IF u = v THEN [fault |-> "None", apex |-> u]
            ELSE IF ~({u, v} \subseteq DOMAIN st.nodes) THEN [fault |-> "Panic", apex |-> u]
            ELSE IF fuel = 0 THEN [fault |-> "Diverge", apex |-> u]
            ELSE climb(IF st.num_successors[u] <= st.num_successors[v] THEN st.nodes[u].parent ELSE u,
                       IF st.num_successors[v] <= st.num_successors[u] THEN st.nodes[v].parent ELSE v, fuel - 1)
    IN  climb(st.edges[entering_edge_id].from, st.edges[entering_edge_id].to, Fuel)

dual_pivot(st, leaving_edge_id, entering_edge_id, t2_now_root, t2_new_root) ==
    LET rooted(s, t1_new_root) ==
            IF s.fault # "None" THEN s
            ELSE IF s.nodes[t1_new_root].parent_edge_id # NONE
            THEN [s EXCEPT !.root = t1_new_root, !.nodes[t1_new_root].parent = NONE, !.fault = "Panic"]
            ELSE [s EXCEPT !.root = t1_new_root, !.nodes[t1_new_root].parent = NONE]
        entered(s, t1_new_root, new_root, new_attach_node) ==
            rooted(attach_tree(re_rooting(s, new_root, entering_edge_id), new_attach_node, new_root,
                               entering_edge_id), t1_new_root)
        detached(s) ==
            IF s.fault # "None" THEN s
            ELSE IF s.num_successors[t2_now_root] * 2 >= s.num_nodes
            THEN entered(s, t2_now_root, opposite_side(s.edges[entering_edge_id], t2_new_root), t2_new_root)
            ELSE entered(s, s.root, t2_new_root, opposite_side(s.edges[entering_edge_id], t2_new_root))
    IN  IF st.fault # "None" THEN st
        ELSE IF leaving_edge_id = entering_edge_id
        THEN IF st.edges[entering_edge_id].state = "Tree" THEN [st EXCEPT !.fault = "Panic"]
             ELSE [st EXCEPT !.edges[entering_edge_id].state = IF @ = "Upper" THEN "Lower" ELSE "Upper"]
        ELSE detached(detach_tree(st, t2_now_root, leaving_edge_id))

dual_run(st, pv) ==
    LET RECURSIVE loop(_, _, _, _)
        loop(s, p, fuel, trace) ==
            LET pushed(c, leaving_edge_id, entering_edge_id, t2_now_root, t2_new_root) ==
                    IF c.fault # "None" THEN c
                    ELSE IF ~(c.edges[leaving_edge_id].flow = 0
                              \/ c.edges[leaving_edge_id].flow = c.edges[leaving_edge_id].upper)
                    THEN [c EXCEPT !.fault = "Panic"]
                    ELSE dual_pivot(c, leaving_edge_id, entering_edge_id, t2_now_root, t2_new_root)
                topped(a, leaving_edge_id, entering_edge_id, t2_now_root, t2_new_root) ==
                    IF a.fault # "None" THEN [s EXCEPT !.fault = a.fault]
                    ELSE pushed(update_flow_in_cycle(s, entering_edge_id,
                                                     dual_calculate_violation(s.edges[leaving_edge_id], s), a.apex),
                                leaving_edge_id, entering_edge_id, t2_now_root, t2_new_root)
                selected(e, leaving_edge_id, t2_now_root, q, tr) ==
                    IF e.fault # "None" THEN [st |-> [s EXCEPT !.fault = e.fault], pivot |-> q, trace |-> tr]
                    ELSE IF e.entering_edge_id = <<>> THEN [st |-> s, pivot |-> q, trace |-> tr]
                    ELSE loop(topped(find_apex(s, e.entering_edge_id[1]), leaving_edge_id,
                                     e.entering_edge_id[1], t2_now_root, e.t2_new_root[1]), q, fuel - 1, tr)
                left(leaving_edge_id, t2_now_root, q, tr) ==
                    selected(dual_select_entering_edge_id(s, leaving_edge_id, t2_now_root),
                             leaving_edge_id, t2_now_root, q, tr)
                found(f) ==
                    IF f.fault # "None" THEN [st |-> [s EXCEPT !.fault = f.fault], pivot |-> f.pivot, trace |-> trace]
                    ELSE IF f.edge = <<>>
                    THEN [st |-> s, pivot |-> f.pivot,
                          trace |-> Append(trace, entering_edge_call("Dual", s, p, f))]
                    ELSE left(f.edge[1],
                              IF s.nodes[s.edges[f.edge[1]].from].parent = s.edges[f.edge[1]].to
                              THEN s.edges[f.edge[1]].from ELSE s.edges[f.edge[1]].to, f.pivot,
                              Append(trace, entering_edge_call("Dual", s, p, f)))
            IN  IF s.fault # "None" THEN [st |-> s, pivot |-> p, trace |-> trace]
                ELSE IF fuel = 0 THEN [st |-> [s EXCEPT !.fault = "Diverge"], pivot |-> p, trace |-> trace]
                ELSE found(find_entering_edge(p, s, "Dual"))
    IN  loop(st, pv, Fuel, <<>>)

dual_network_simplex_solve(self, pv, g) ==
    LET finish(ext, s, trace) ==
            IF s.fault # "None" THEN [status |-> s.fault, graph |-> ext.graph, self |-> [st |-> s, sink |-> ext.sink], trace |-> trace]
            ELSE [status |-> IF satisfy_constraints(s) THEN "Optimal" ELSE "Infeasible",
                  graph |-> remove_artificial_sub_graph(
                                [ext.graph EXCEPT !.excesses = s.excesses,
                                                  !.edges = [edge_id \in DOMAIN @ |->
                                                      [@[edge_id] EXCEPT !.flow = s.edges[edge_id].flow]]],
                                ext.artificial_nodes, ext.artificial_edges),
                  self |-> [st |-> s, sink |-> ext.sink], trace |-> trace]
        ran(ext, r) == finish(ext, r.st, r.trace)
        made(ext, i) ==
            IF i.st.fault # "None" THEN [status |-> i.st.fault, graph |-> ext.graph, self |-> [st |-> i.st, sink |-> ext.sink], trace |-> <<>>]
            ELSE IF ~i.ok
            THEN [status |-> IF satisfy_constraints(i.st) THEN "Optimal" ELSE "Infeasible",
                  graph |-> remove_artificial_sub_graph(ext.graph, ext.artificial_nodes, ext.artificial_edges),
                  self |-> [st |-> i.st, sink |-> ext.sink], trace |-> <<>>]
            ELSE ran(ext, dual_run(i.st, pv))
        built(ext, s) == made(ext, dual_make_initial_spanning_tree_structure([s EXCEPT !.root = ext.source], ext.sink))
        extended(ext) == built(ext, st_build(self.st, ext.graph))
    IN  IF is_unbalance(g) THEN [status |-> "Unbalanced", graph |-> g, self |-> self, trace |-> <<>>]
        ELSE extended(construct_extend_network_one_supply_one_demand(g))


\* ----------------- minimum_cost_flow::parametric_network_simplex (continued)
ParametricNetworkSimplexDefault == [st |-> SpanningTreeStructureDefault, sink |-> 0]

\* the tree arc of least slack on the path from the sink up to the root,
\* the one nearest the root among equals, and the flow it lets through
parametric_select_leaving_edge(st, snk) ==
    LET RECURSIVE climb(_, _, _)
        climb(r, now, fuel) ==
            IF now = st.root
            THEN [r EXCEPT !.delta = IF r.leaving_edge_id = <<>> THEN @ ELSE Min(@, st.excesses[st.root])]
            ELSE IF now \notin DOMAIN st.nodes \/ st.nodes[now].parent_edge_id \notin DOMAIN st.edges
            THEN [r EXCEPT !.fault = "Panic"]
            ELSE IF st.edges[st.nodes[now].parent_edge_id].state # "Tree" THEN [r EXCEPT !.fault = "Panic"]
            ELSE IF fuel = 0 THEN [r EXCEPT !.fault = "Diverge"]
            ELSE LET parent == st.nodes[now].parent
                     edge_id == st.nodes[now].parent_edge_id
                     edge == st.edges[edge_id]
                     delta == IF edge.from = parent THEN residual_capacity(edge) ELSE edge.flow
                 IN  IF r.leaving_edge_id = <<>> \/ delta <= r.delta
                     THEN climb([r EXCEPT !.delta = delta, !.leaving_edge_id = Some(edge_id)], parent, fuel - 1)
                     ELSE climb(r, parent, fuel - 1)
    IN  climb([fault |-> "None", leaving_edge_id |-> <<>>, delta |-> 0], snk, Fuel)

parametric_select_entering_edge_id(st, leaving_edge_id, t2_now_root) ==
    LET chosen(is_t1_node) ==
            LET lower(r, edge_id) ==
                    IF /\ is_t1_node[st.edges[edge_id].from] /\ ~is_t1_node[st.edges[edge_id].to]
                       /\ st.edges[edge_id].state = "Lower" /\ st.edges[edge_id].upper # 0
                       /\ (st_reduced_cost(st, st.edges[edge_id]) < r.mini_delta \/ r.entering_edge_id = <<>>)
                    THEN [r EXCEPT !.mini_delta = st_reduced_cost(st, st.edges[edge_id]),
                                   !.entering_edge_id = Some(edge_id),
                                   !.t2_new_root = Some(st.edges[edge_id].to)]
                    ELSE r
                upper(r, edge_id) ==
                    IF /\ ~is_t1_node[st.edges[edge_id].from] /\ is_t1_node[st.edges[edge_id].to]
                       /\ st.edges[edge_id].state = "Upper"
                       /\ (-st_reduced_cost(st, st.edges[edge_id]) < r.mini_delta \/ r.entering_edge_id = <<>>)
                    THEN [r EXCEPT !.mini_delta = -st_reduced_cost(st, st.edges[edge_id]),
                                   !.entering_edge_id = Some(edge_id),
                                   !.t2_new_root = Some(st.edges[edge_id].from)]
                    ELSE r
                RECURSIVE scan(_, _)
                scan(r, edge_id) ==
                    IF edge_id >= VecLen(st.edges) THEN r
                    ELSE IF edge_id = leaving_edge_id THEN scan(r, edge_id + 1)
                    ELSE scan(upper(lower(r, edge_id), edge_id), edge_id + 1)
            IN  scan([fault |-> "None", entering_edge_id |-> <<>>, t2_new_root |-> <<>>, mini_delta |-> 0], 0)
        marked(m) ==
            IF m.fault # "None"
            THEN [fault |-> m.fault, entering_edge_id |-> <<>>, t2_new_root |-> <<>>, mini_delta |-> 0]
            ELSE chosen(m.is_t1_node)
    IN  marked(t1_nodes(st, t2_now_root))

parametric_dual_pivot(st, leaving_edge_id, entering_edge_id, t2_now_root, t2_new_root) ==
    LET detached(s) ==
            IF s.fault # "None" THEN s
            ELSE attach_tree(re_rooting(s, t2_new_root, entering_edge_id),
                             opposite_side(s.edges[entering_edge_id], t2_new_root), t2_new_root, entering_edge_id)
    IN  IF st.fault # "None" THEN st
        ELSE IF leaving_edge_id = entering_edge_id
        THEN IF st.edges[entering_edge_id].state = "Tree" THEN [st EXCEPT !.fault = "Panic"]
             ELSE [st EXCEPT !.edges[entering_edge_id].state = IF @ = "Upper" THEN "Lower" ELSE "Upper"]
        ELSE detached(detach_tree(st, t2_now_root, leaving_edge_id))

\* trace records the tree structure each time the loop starts over
parametric_run(st, snk) ==
    LET RECURSIVE loop(_, _, _)
        loop(s, fuel, trace) ==
            LET seen == Append(trace, [st |-> s])
                selected(c, e, leaving_edge_id, t2_now_root) ==
                    IF e.fault # "None" THEN [st |-> [c EXCEPT !.fault = e.fault], trace |-> seen]
                    ELSE IF e.entering_edge_id = <<>> THEN [st |-> c, trace |-> seen]
                    ELSE loop(parametric_dual_pivot(c, leaving_edge_id, e.entering_edge_id[1], t2_now_root,
                                                    e.t2_new_root[1]), fuel - 1, seen)
                pushed(c, leaving_edge_id, t2_now_root) ==
                    IF c.fault # "None" THEN [st |-> c, trace |-> seen]
                    ELSE IF c.excesses[c.root] = 0 THEN [st |-> c, trace |-> seen]
                    ELSE selected(c, parametric_select_entering_edge_id(c, leaving_edge_id, t2_now_root),
                                  leaving_edge_id, t2_now_root)
                left(l) ==
                    IF l.fault # "None" THEN [st |-> [s EXCEPT !.fault = l.fault], trace |-> seen]
                    ELSE IF l.leaving_edge_id = <<>> THEN [st |-> s, trace |-> seen]
                    ELSE pushed(update_flow_in_path(s, s.root, snk, l.delta), l.leaving_edge_id[1],
                                IF s.nodes[s.edges[l.leaving_edge_id[1]].from].parent
                                       = s.edges[l.leaving_edge_id[1]].to
                                THEN s.edges[l.leaving_edge_id[1]].from ELSE s.edges[l.leaving_edge_id[1]].to)
            IN  IF s.fault # "None" THEN [st |-> s, trace |-> trace]
                ELSE IF fuel = 0 THEN [st |-> [s EXCEPT !.fault = "Diverge"], trace |-> seen]
                ELSE left(parametric_select_leaving_edge(s, snk))
    IN  loop(st, Fuel, <<>>)

parametric_network_simplex_solve(self, g) ==
    LET finish(ext, s, trace) ==
            IF s.fault # "None"
            THEN [status |-> s.fault, graph |-> ext.graph, self |-> [st |-> s, sink |-> ext.sink], trace |-> trace]
            ELSE [status |-> IF satisfy_constraints(s) THEN "Optimal" ELSE "Infeasible",
                  graph |-> remove_artificial_sub_graph(
                                [ext.graph EXCEPT !.excesses = s.excesses,
                                                  !.edges = [edge_id \in DOMAIN @ |->
                                                      [@[edge_id] EXCEPT !.flow = s.edges[edge_id].flow]]],
                                ext.artificial_nodes, ext.artificial_edges),
                  self |-> [st |-> s, sink |-> ext.sink], trace |-> trace]
        ran(ext, r) == finish(ext, r.st, r.trace)
        made(ext, i) ==
            IF i.st.fault # "None"
            THEN [status |-> i.st.fault, graph |-> ext.graph, self |-> [st |-> i.st, sink |-> ext.sink],
                  trace |-> <<>>]
            ELSE IF ~i.ok
            THEN [status |-> IF satisfy_constraints(i.st) THEN "Optimal" ELSE "Infeasible",
                  graph |-> remove_artificial_sub_graph(ext.graph, ext.artificial_nodes, ext.artificial_edges),
                  self |-> [st |-> i.st, sink |-> ext.sink], trace |-> <<>>]
            ELSE ran(ext, parametric_run(i.st, ext.sink))
        built(ext, s) ==
            made(ext, parametric_make_initial_spanning_tree_structure([s EXCEPT !.root = ext.source], ext.sink))
        extended(ext) == built(ext, st_build(self.st, ext.graph))
    IN  IF is_unbalance(g) THEN [status |-> "Unbalanced", graph |-> g, self |-> self, trace |-> <<>>]
        ELSE extended(construct_extend_network_one_supply_one_demand(g))


\* ---------------------------------------------------------------- actions
Nodes == 0..(MaxNodes - 1)

MFAddNode ==
    /\ status = "NotSolved" /\ kept = <<>>
    /\ mf.num_nodes < MaxNodes
    /\ mcf.num_nodes = 0
    /\ mf' = mf_add_node(mf)
    /\ UNCHANGED <<mcf, calls, source, sink, solver, status, kept, budget, observed>>

MFAddDirectedEdge ==
    /\ status = "NotSolved" /\ kept = <<>>
    /\ mf.num_edges < MaxEdges
    /\ \E from \in 0..MaxNodes, to \in 0..MaxNodes, upper \in 0..MaxCap :
          /\ mf' = mf_add_directed_edge(mf, from, to, upper)
          /\ observed' = [op |-> "MFAddDirectedEdge",
                          valid |-> from < mf.num_nodes /\ to < mf.num_nodes,
                          ret |-> mf_add_directed_edge_result(mf, from, to, upper)]
    /\ UNCHANGED <<mcf, calls, source, sink, solver, status, kept, budget>>

FordFulkersonSolve ==
    /\ status = "NotSolved"
    /\ \E s \in Nodes, t \in Nodes :
          /\ s < mf.num_nodes /\ t < mf.num_nodes /\ s # t
          /\ LET r == ford_fulkerson_solve(MFCSRDefault, s, t, mf)
             IN  /\ mf' = r.graph
                 /\ status' = r.status
                 /\ source' = s /\ sink' = t
                 /\ solver' = "FordFulkerson"
    /\ kept' = <<>> /\ budget' = budget - 1
    /\ observed' = [op |-> "solve", reused |-> FALSE, trace |-> <<>>]
    /\ UNCHANGED <<mcf, calls>>

EdmondsKarpSolve ==
    /\ status = "NotSolved"
    /\ \E s \in Nodes, t \in Nodes :
          /\ s < mf.num_nodes /\ t < mf.num_nodes /\ s # t
          /\ LET r == edmonds_karp_solve(MFCSRDefault, s, t, mf)
             IN  /\ mf' = r.graph
                 /\ status' = r.status
                 /\ source' = s /\ sink' = t
                 /\ solver' = "EdmondsKarp"
                 /\ observed' = [op |-> "solve", reused |-> FALSE, trace |-> r.trace]
    /\ kept' = <<>> /\ budget' = budget - 1
    /\ UNCHANGED <<mcf, calls>>

DinicSolve ==
    /\ status = "NotSolved"
    /\ \E s \in Nodes, t \in Nodes :
          /\ s < mf.num_nodes /\ t < mf.num_nodes /\ s # t
          /\ LET r == dinic_solve(MFCSRDefault, s, t, mf)
             IN  /\ mf' = r.graph
                 /\ status' = r.status
                 /\ source' = s /\ sink' = t
                 /\ solver' = "Dinic"
    /\ kept' = <<>> /\ budget' = budget - 1
    /\ observed' = [op |-> "solve", reused |-> FALSE, trace |-> <<>>]
    /\ UNCHANGED <<mcf, calls>>

CapacityScalingSolve ==
    /\ status = "NotSolved"
    /\ \E s \in Nodes, t \in Nodes :
          /\ s < mf.num_nodes /\ t < mf.num_nodes /\ s # t
          /\ LET r == capacity_scaling_solve(MFCSRDefault, s, t, mf)
             IN  /\ mf' = r.graph
                 /\ status' = r.status
                 /\ source' = s /\ sink' = t
                 /\ solver' = "CapacityScaling"
    /\ kept' = <<>> /\ budget' = budget - 1
    /\ observed' = [op |-> "solve", reused |-> FALSE, trace |-> <<>>]
    /\ UNCHANGED <<mcf, calls>>

ShortestAugmentingPathSolve ==
    /\ status = "NotSolved"
    /\ \E s \in Nodes, t \in Nodes :
          /\ s < mf.num_nodes /\ t < mf.num_nodes /\ s # t
          /\ LET r == shortest_augmenting_path_solve(MFCSRDefault, s, t, mf)
             IN  /\ mf' = r.graph
                 /\ status' = r.status
                 /\ source' = s /\ sink' = t
                 /\ solver' = "ShortestAugmentingPath"
    /\ kept' = <<>> /\ budget' = budget - 1
    /\ observed' = [op |-> "solve", reused |-> FALSE, trace |-> <<>>]
    /\ UNCHANGED <<mcf, calls>>

\* push-relabel checks its input itself, so any pair of ids is offered
PushRelabelFIFOSolve ==
    /\ status = "NotSolved"
    /\ \E s \in Nodes, t \in Nodes, alpha \in 0..MaxAlpha :
          LET r == push_relabel_fifo_solve(PushRelabelFIFODefault(alpha), s, t, mf)
          IN  /\ mf' = r.graph
              /\ status' = r.status
              /\ source' = s /\ sink' = t
              /\ solver' = IF alpha = 0 THEN "PushRelabelFIFO" ELSE "PushRelabelFIFOGlobal"
              /\ observed' = [op |-> "solve", reused |-> FALSE, trace |-> r.trace]
    /\ kept' = <<>> /\ budget' = budget - 1
    /\ UNCHANGED <<mcf, calls>>

MFInit ==
    /\ mf = MFGraphDefault
    /\ mcf = MCFGraphDefault
    /\ calls = <<>>
    /\ source = 0 /\ sink = 0
    /\ solver = "None"
    /\ status = "NotSolved"
    /\ kept = <<>>
    /\ budget = 1
    /\ observed = [op |-> "None"]

\* the caller that solves the graph and then solves it once more
MaxRuns == 2

AgainInit ==
    /\ mf = MFGraphDefault
    /\ mcf = MCFGraphDefault
    /\ calls = <<>>
    /\ source = 0 /\ sink = 0
    /\ solver = "None"
    /\ status = "NotSolved"
    /\ kept = <<>>
    /\ budget = MaxRuns
    /\ observed = [op |-> "None"]

MFNext ==
    \/ MFAddNode
    \/ MFAddDirectedEdge
    \/ FordFulkersonSolve
    \/ EdmondsKarpSolve
    \/ DinicSolve
    \/ CapacityScalingSolve
    \/ ShortestAugmentingPathSolve
    \/ PushRelabelFIFOSolve

SpecMF == MFInit /\ [][MFNext]_vars

\* ------------------------------------------- minimum cost flow: actions
MCFNodes == 0..(MCFMaxNodes - 1)

MCFAddNode ==
    /\ status = "NotSolved" /\ kept = <<>>
    /\ mcf.num_nodes < MCFMaxNodes
    /\ mf.num_nodes = 0
    /\ mcf' = mcf_add_node(mcf)
    /\ UNCHANGED <<mf, calls, source, sink, solver, status, kept, budget, observed>>

\* the supplies are kept within -MaxSupply..MaxSupply
MCFAddSupply ==
    /\ status = "NotSolved" /\ kept = <<>>
    /\ \E u \in MCFNodes, supply \in 1..MaxSupply :
          /\ u < mcf.num_nodes
          /\ mcf.b[u] + supply <= MaxSupply
          /\ mcf' = add_supply(mcf, u, supply)
    /\ UNCHANGED <<mf, calls, source, sink, solver, status, kept, budget, observed>>

MCFAddDemand ==
    /\ status = "NotSolved" /\ kept = <<>>
    /\ \E u \in MCFNodes, demand \in 1..MaxSupply :
          /\ u < mcf.num_nodes
          /\ mcf.b[u] - demand >= -MaxSupply
          /\ mcf' = add_demand(mcf, u, demand)
    /\ UNCHANGED <<mf, calls, source, sink, solver, status, kept, budget, observed>>

MCFAddDirectedEdge ==
    /\ status = "NotSolved" /\ kept = <<>>
    /\ mcf.num_edges < MCFMaxEdges
    /\ \E from \in 0..MCFMaxNodes, to \in 0..MCFMaxNodes, lower \in 0..MaxLower, upper \in 0..MCFMaxCap,
          cost \in (-MaxCost)..MaxCost :
          /\ mcf' = mcf_add_directed_edge(mcf, from, to, lower, upper, cost)
          /\ observed' = [op |-> "MCFAddDirectedEdge",
                          valid |-> from < mcf.num_nodes /\ to < mcf.num_nodes /\ lower <= upper,
                          ret |-> mcf_add_directed_edge_result(mcf, from, to, lower, upper, cost)]
          /\ calls' = IF mcf_add_directed_edge(mcf, from, to, lower, upper, cost).num_edges = mcf.num_edges
                      THEN calls
                      ELSE VecPush(calls, [from |-> from, to |-> to, lower |-> lower, upper |-> upper,
                                           cost |-> cost])
    /\ UNCHANGED <<mf, source, sink, solver, status, kept, budget>>

\* the statuses a solve call returns with
Returned == {"Optimal", "Infeasible", "Unbalanced", "BadInput"}

\* a caller with calls left solves a graph that was not solved yet, or
\* runs the solver of the first call once more on the graph it left
MaySolve(name) ==
    /\ budget > 0
    /\ status = "NotSolved" \/ (status \in Returned /\ solver = name)

\* the second call is made on a fresh solver object or on the kept one
Reuse == {FALSE} \cup {TRUE : i \in DOMAIN kept}

SuccessiveShortestPathSolve ==
    /\ MaySolve("SuccessiveShortestPath")
    /\ \E r \in {successive_shortest_path_solve(MCFCSRDefault, mcf)} :
          /\ mcf' = r.graph /\ status' = r.status
          /\ observed' = [op |-> "solve", reused |-> FALSE, trace |-> r.trace]
    /\ solver' = "SuccessiveShortestPath"
    /\ kept' = <<>> /\ budget' = budget - 1
    /\ UNCHANGED <<mf, calls, source, sink>>

CycleCancelingSolve ==
    /\ MaySolve("CycleCanceling")
    /\ \E r \in {cycle_canceling_solve(MCFCSRDefault, mcf)} :
          mcf' = r.graph /\ status' = r.status
    /\ solver' = "CycleCanceling"
    /\ kept' = <<>> /\ budget' = budget - 1
    /\ observed' = [op |-> "solve", reused |-> FALSE, trace |-> <<>>]
    /\ UNCHANGED <<mf, calls, source, sink>>

PrimalDualSolve ==
    /\ MaySolve("PrimalDual")
    /\ \E r \in {primal_dual_solve([csr |-> MCFCSRDefault, distances |-> <<>>, current_edge |-> <<>>], mcf)} :
          mcf' = r.graph /\ status' = r.status
    /\ solver' = "PrimalDual"
    /\ kept' = <<>> /\ budget' = budget - 1
    /\ observed' = [op |-> "solve", reused |-> FALSE, trace |-> <<>>]
    /\ UNCHANGED <<mf, calls, source, sink>>

OutOfKilterSolve ==
    /\ MaySolve("OutOfKilter")
    /\ \E r \in {out_of_kilter_solve(MCFCSRDefault, mcf)} :
          mcf' = r.graph /\ status' = r.status
    /\ solver' = "OutOfKilter"
    /\ kept' = <<>> /\ budget' = budget - 1
    /\ observed' = [op |-> "solve", reused |-> FALSE, trace |-> <<>>]
    /\ UNCHANGED <<mf, calls, source, sink>>

CostScalingPushRelabelSolve ==
    /\ MaySolve("CostScalingPushRelabel")
    /\ \E r \in {cost_scaling_push_relabel_solve(CostScalingPushRelabelDefault, mcf)} :
          mcf' = r.graph /\ status' = r.status
    /\ solver' = "CostScalingPushRelabel"
    /\ kept' = <<>> /\ budget' = budget - 1
    /\ observed' = [op |-> "solve", reused |-> FALSE, trace |-> <<>>]
    /\ UNCHANGED <<mf, calls, source, sink>>

\* the pivot rules a caller can hand to the network simplex methods, each
\* made by new(num_edges) for the graph at hand
PivotRules(num_edges) ==
    {BestEligibleArcPivotRule(num_edges), FirstEligibleArcPivotRule(num_edges), BlockSearchPivotRule(num_edges),
     CandidateListPivotRule(num_edges), AlteringCandidateListPivotRule(num_edges)}

PrimalNetworkSimplexSolve ==
    /\ \E pivot \in PivotRules(mcf.num_edges), reuse \in Reuse :
          /\ MaySolve("PrimalNetworkSimplex" \o pivot.kind)
          /\ \E r \in {primal_network_simplex_solve(IF reuse THEN kept[1] ELSE SpanningTreeStructureDefault,
                                                    pivot, mcf)} :
                /\ mcf' = r.graph /\ status' = r.status /\ kept' = <<r.self>>
                /\ observed' = [op |-> "solve", reused |-> reuse, trace |-> r.trace]
          /\ solver' = "PrimalNetworkSimplex" \o pivot.kind
    /\ budget' = budget - 1
    /\ UNCHANGED <<mf, calls, source, sink>>

DualNetworkSimplexSolve ==
    /\ \E pivot \in PivotRules(mcf.num_edges), reuse \in Reuse :
          /\ MaySolve("DualNetworkSimplex" \o pivot.kind)
          /\ \E r \in {dual_network_simplex_solve(IF reuse THEN kept[1] ELSE DualNetworkSimplexDefault,
                                                  pivot, mcf)} :
                /\ mcf' = r.graph /\ status' = r.status /\ kept' = <<r.self>>
                /\ observed' = [op |-> "solve", reused |-> reuse, trace |-> r.trace]
          /\ solver' = "DualNetworkSimplex" \o pivot.kind
    /\ budget' = budget - 1
    /\ UNCHANGED <<mf, calls, source, sink>>

ParametricSolve ==
    /\ MaySolve("Parametric")
    /\ \E reuse \in Reuse :
          /\ \E r \in {parametric_network_simplex_solve(IF reuse THEN kept[1] ELSE ParametricNetworkSimplexDefault,
                                                        mcf)} :
                /\ mcf' = r.graph /\ status' = r.status /\ kept' = <<r.self>>
                /\ observed' = [op |-> "solve", reused |-> reuse, trace |-> r.trace]
    /\ solver' = "Parametric"
    /\ budget' = budget - 1
    /\ UNCHANGED <<mf, calls, source, sink>>

MCFNext ==
    \/ MCFAddNode
    \/ MCFAddSupply
    \/ MCFAddDemand
    \/ MCFAddDirectedEdge
    \/ SuccessiveShortestPathSolve
    \/ CycleCancelingSolve
    \/ PrimalDualSolve
    \/ OutOfKilterSolve
    \/ CostScalingPushRelabelSolve
    \/ PrimalNetworkSimplexSolve
    \/ DualNetworkSimplexSolve
    \/ ParametricSolve

SpecMCF == MFInit /\ [][MCFNext]_vars

SpecMCFAgain == AgainInit /\ [][MCFNext]_vars

\* ------------------------- the altering candidate list with short lists
\* a caller that builds a graph and solves it with the primal method and an
\* AlteringCandidateListPivotRule made by new_with_parameter, with factors
\* of 0.01 and small minimums, so that block_size and head_length are the
\* minimums
MaxBlockSize == 2
MaxHeadLength == 2

AlteringSolve ==
    /\ MaySolve("PrimalNetworkSimplexAlteringCandidateList")
    /\ \E min_block_size \in 1..MaxBlockSize, min_head_length \in 1..MaxHeadLength :
          \E r \in {primal_network_simplex_solve(
                        SpanningTreeStructureDefault,
                        altering_new_with_parameter(mcf.num_edges, min_block_size, 100, min_head_length, 100),
                        mcf)} :
              /\ mcf' = r.graph /\ status' = r.status /\ kept' = <<r.self>>
              /\ observed' = [op |-> "solve", reused |-> FALSE, trace |-> r.trace]
    /\ solver' = "PrimalNetworkSimplexAlteringCandidateList"
    /\ budget' = budget - 1
    /\ UNCHANGED <<mf, calls, source, sink>>

\* the graph of the caller: two nodes, a supply at node 0 and the same
\* demand at node 1, and AlteringArcs edges between the two
AlteringArcs == 4

RECURSIVE AlteringGraph(_, _, _)
AlteringGraph(g, arcs, i) ==
    IF i >= AlteringArcs THEN g
    ELSE AlteringGraph(mcf_add_directed_edge(g, arcs[i].from, arcs[i].to, arcs[i].lower, arcs[i].upper,
                                             arcs[i].cost), arcs, i + 1)

AlteringSupply == 2

AlteringInit ==
    /\ mf = MFGraphDefault
    /\ \E supply \in 0..AlteringSupply :
          \E arcs \in [0..(AlteringArcs - 1) ->
                          {arc \in [from : MCFNodes, to : MCFNodes, lower : {0}, upper : 1..MCFMaxCap,
                                    cost : 0..MaxCost] : arc.from # arc.to}] :
              /\ mcf = AlteringGraph(add_demand(add_supply(mcf_add_node(mcf_add_node(MCFGraphDefault)),
                                                           0, supply), 1, supply), arcs, 0)
              /\ calls = arcs
    /\ source = 0 /\ sink = 0
    /\ solver = "None"
    /\ status = "NotSolved"
    /\ kept = <<>>
    /\ budget = 1
    /\ observed = [op |-> "None"]

AlteringNext == AlteringSolve

SpecAltering == AlteringInit /\ [][AlteringNext]_vars

\* ------------------------------------ network simplex on a three-node graph
\* a caller that has added three nodes, a supply at node 0 and the same
\* demand at node 1, then adds edges between any of the three nodes and
\* solves with one of the network simplex methods
TripleNodes == 3

RECURSIVE mcf_add_nodes(_, _)
mcf_add_nodes(g, n) == IF n = 0 THEN g ELSE mcf_add_nodes(mcf_add_node(g), n - 1)

TripleInit ==
    /\ mf = MFGraphDefault
    /\ \E supply \in 0..MaxSupply :
          mcf = add_demand(add_supply(mcf_add_nodes(MCFGraphDefault, TripleNodes), 0, supply), 1, supply)
    /\ calls = <<>>
    /\ source = 0 /\ sink = 0
    /\ solver = "None"
    /\ status = "NotSolved"
    /\ kept = <<>>
    /\ budget = 1
    /\ observed = [op |-> "None"]

TripleNext ==
    \/ MCFAddDirectedEdge
    \/ PrimalNetworkSimplexSolve
    \/ DualNetworkSimplexSolve
    \/ ParametricSolve

SpecTriple == TripleInit /\ [][TripleNext]_vars

\* --------------------------- PrimalNetworkSimplex::run, one pivot at a time
\* solve down to the call of run: the graph with its artificial root, the
\* structure built on it and the initial tree
primal_solve_begin(self, pv, g) ==
    LET inf_cost == 1 + VecSum([i \in DOMAIN g.edges |-> g.edges[i].cost], 0)
        ext == construct_extend_network_feasible_solution(g)
        s == st_build(self, ext.graph)
    IN  [ext |-> ext, pivot |-> pv,
         st |-> primal_make_initial_spanning_tree_structure(
                    [s EXCEPT !.root = ext.root,
                              !.nodes[ext.root] = [@ EXCEPT !.parent = NONE, !.parent_edge_id = NONE]],
                    ext.graph, ext.artificial_edges, inf_cost)]

\* one pass of the while loop of run: the call of find_entering_edge and,
\* when it returns an arc, the pivot on it; more is FALSE when the loop ends
primal_run_step(s, p) ==
    LET f == find_entering_edge(p, s, "Primal")
        call == entering_edge_call("Primal", s, p, f)
        left(l, entering_edge_id) ==
            IF l.fault # "None"
            THEN [st |-> [s EXCEPT !.fault = l.fault], pivot |-> f.pivot, call |-> call, more |-> FALSE,
                  delta |-> 0, leaving_edge_id |-> NONE]
            ELSE [st |-> primal_pivot(update_flow_in_cycle(s, entering_edge_id, l.delta, l.apex),
                                      l.leaving_edge_id, entering_edge_id, l.t2_now_root, l.t2_new_root),
                  pivot |-> f.pivot, call |-> call, more |-> TRUE,
                  delta |-> l.delta, leaving_edge_id |-> l.leaving_edge_id]
    IN  IF f.fault # "None"
        THEN [st |-> [s EXCEPT !.fault = f.fault], pivot |-> f.pivot, call |-> call, more |-> FALSE,
              delta |-> 0, leaving_edge_id |-> NONE]
        ELSE IF f.edge = <<>>
        THEN [st |-> s, pivot |-> f.pivot, call |-> call, more |-> FALSE, delta |-> 0, leaving_edge_id |-> NONE]
        ELSE left(select_leaving_edge(s, f.edge[1]), f.edge[1])

\* the end of run: the flow left on an artificial arc goes back into the
\* excesses
RECURSIVE primal_run_revert(_, _, _)
primal_run_revert(s, artificial_edges, k) ==
    IF s.fault # "None" \/ k > Len(artificial_edges) THEN s
    ELSE LET edge == s.edges[artificial_edges[k]]
         IN  IF edge.flow > 0
             THEN primal_run_revert([s EXCEPT !.excesses = [[@ EXCEPT ![edge.from] = @ + edge.flow]
                                                               EXCEPT ![edge.to] = @ - edge.flow],
                                              !.edges[artificial_edges[k]].flow = 0],
                                    artificial_edges, k + 1)
             ELSE primal_run_revert(s, artificial_edges, k + 1)

\* solve after run: the status, and the flows and excesses copied into the
\* graph without its artificial part
primal_solve_end(ext, s) ==
    IF s.fault # "None" THEN [status |-> s.fault, graph |-> ext.graph, self |-> s]
    ELSE [status |-> IF satisfy_constraints(s) THEN "Optimal" ELSE "Infeasible",
          graph |-> remove_artificial_sub_graph(
                        [ext.graph EXCEPT !.excesses = s.excesses,
                                          !.edges = [edge_id \in DOMAIN @ |->
                                              [@[edge_id] EXCEPT !.flow = s.edges[edge_id].flow]]],
                        ext.artificial_nodes, ext.artificial_edges),
          self |-> s]

\* a caller that has built a graph of three nodes and RunArcs edges, with a
\* supply at node 0 and a demand at node 1, and solves it with the primal
\* method; while run is at work, status is "Running", kept holds the
\* structure, the rule and the artificial part, and observed holds the last
\* call of find_entering_edge, whether a pivot so far moved no flow
\* (degenerate) or gave back its entering arc (flipped), and whether the
\* number of pivots so far is odd
RunArcs == 2
RunSupply == 2

RECURSIVE RunGraph(_, _, _)
RunGraph(g, arcs, i) ==
    IF i >= RunArcs THEN g
    ELSE RunGraph(mcf_add_directed_edge(g, arcs[i].from, arcs[i].to, arcs[i].lower, arcs[i].upper, arcs[i].cost),
                  arcs, i + 1)

RunInit ==
    /\ mf = MFGraphDefault
    /\ \E supply \in 0..RunSupply, demand \in 0..RunSupply :
          \E arcs \in [0..(RunArcs - 1) ->
                          {arc \in [from : 0..(TripleNodes - 1), to : 0..(TripleNodes - 1), lower : {0},
                                    upper : 1..MCFMaxCap, cost : 0..MaxCost] : arc.from # arc.to}] :
              /\ mcf = RunGraph(add_demand(add_supply(mcf_add_nodes(MCFGraphDefault, TripleNodes), 0, supply),
                                           1, demand), arcs, 0)
              /\ calls = arcs
    /\ source = 0 /\ sink = 0
    /\ solver = "None"
    /\ status = "NotSolved"
    /\ kept = <<>>
    /\ budget = 1
    /\ observed = [op |-> "None"]

\* solve is called: an unbalanced graph is turned down, any other one gets
\* its initial tree and run starts
PrimalSolveBegin ==
    /\ budget > 0 /\ status = "NotSolved"
    /\ \E pivot \in PivotRules(mcf.num_edges) :
          /\ solver' = "PrimalNetworkSimplex" \o pivot.kind
          /\ IF is_unbalance(mcf)
             THEN /\ status' = "Unbalanced"
                  /\ observed' = [op |-> "solve", reused |-> FALSE, trace |-> <<>>]
                  /\ UNCHANGED <<mcf, kept>>
             ELSE \E b \in {primal_solve_begin(SpanningTreeStructureDefault, pivot, mcf)} :
                      /\ status' = "Running"
                      /\ mcf' = b.ext.graph
                      /\ kept' = <<b>>
                      /\ observed' = [op |-> "run", call |-> <<>>, degenerate |-> FALSE, flipped |-> FALSE,
                                      odd |-> FALSE]
    /\ budget' = budget - 1
    /\ UNCHANGED <<mf, calls, source, sink>>

\* find_entering_edge returns an arc and the loop of run pivots on it
PrimalRunPivot ==
    /\ status = "Running"
    /\ \E r \in {primal_run_step(kept[1].st, kept[1].pivot)} :
          /\ r.more
          /\ kept' = <<[kept[1] EXCEPT !.st = r.st, !.pivot = r.pivot]>>
          /\ observed' = [op |-> "run", call |-> <<r.call>>,
                          degenerate |-> observed.degenerate \/ r.delta = 0,
                          flipped |-> observed.flipped \/ r.leaving_edge_id = r.call.ret[1],
                          odd |-> ~observed.odd]
    /\ UNCHANGED <<mf, mcf, calls, source, sink, solver, status, budget>>

\* find_entering_edge returns None (or a call panics): run reverts the
\* artificial flows and solve returns
PrimalRunEnd ==
    /\ status = "Running"
    /\ \E r \in {primal_run_step(kept[1].st, kept[1].pivot)} :
          /\ ~r.more
          /\ \E e \in {primal_solve_end(kept[1].ext,
                                        primal_run_revert(r.st, kept[1].ext.artificial_edges, 1))} :
                /\ status' = e.status
                /\ mcf' = e.graph
                /\ kept' = <<[kept[1] EXCEPT !.st = e.self, !.pivot = r.pivot]>>
          /\ observed' = [observed EXCEPT !.call = <<r.call>>]
    /\ UNCHANGED <<mf, calls, source, sink, solver, budget>>

RunNext ==
    \/ PrimalSolveBegin
    \/ PrimalRunPivot
    \/ PrimalRunEnd

\* a step of RunNext is possible, and changes the state, exactly when solve
\* was not called yet or run is at work
RunEnabled == status \in {"NotSolved", "Running"}

\* solve and run are sequential code: a call that can be made is made and
\* a loop that can make its next pass makes it. This is WF_vars(RunNext),
\* written out with RunEnabled for ENABLED <<RunNext>>_vars
RunFairness == []<>(~RunEnabled) \/ []<><<RunNext>>_vars

SpecRun == RunInit /\ [][RunNext]_vars /\ RunFairness

\* ------------------------------------------------- the two graph builders
\* a caller builds one graph, the other one stays empty
GraphNext ==
    \/ MFAddNode
    \/ MFAddDirectedEdge
    \/ MCFAddNode
    \/ MCFAddSupply
    \/ MCFAddDemand
    \/ MCFAddDirectedEdge

SpecGraph == MFInit /\ [][GraphNext]_vars

\* ------------------------------------------------------- the two CSRs
\* build is called on a freshly constructed CSR with the graph the caller
\* built, which is left alone from then on; kept holds the CSR
MFCSRBuild ==
    /\ status = "NotSolved" /\ kept = <<>>
    /\ mf.num_nodes > 0
    /\ kept' = <<[kind |-> "MF", csr |-> mf_build(MFCSRDefault, mf)]>>
    /\ observed' = [op |-> "build"]
    /\ UNCHANGED <<mf, mcf, calls, source, sink, solver, status, budget>>

MCFCSRBuild ==
    /\ status = "NotSolved" /\ kept = <<>>
    /\ mf.num_nodes = 0
    /\ kept' = <<[kind |-> "MCF", csr |-> mcf_build(MCFCSRDefault, mcf)]>>
    /\ observed' = [op |-> "build"]
    /\ UNCHANGED <<mf, mcf, calls, source, sink, solver, status, budget>>

\* push_flow with an amount the arc has room for
MFCSRPushFlow ==
    /\ kept # <<>> /\ kept[1].kind = "MF"
    /\ \E inside_edge_index \in DOMAIN kept[1].csr.inside_edge_list, flow \in 1..MaxCap :
          /\ flow <= residual_capacity(kept[1].csr.inside_edge_list[inside_edge_index])
          /\ kept' = <<[kind |-> "MF", csr |-> mf_push_flow(kept[1].csr, inside_edge_index, flow)]>>
    /\ observed' = [op |-> "push_flow"]
    /\ UNCHANGED <<mf, mcf, calls, source, sink, solver, status, budget>>

MCFCSRPushFlow ==
    /\ kept # <<>> /\ kept[1].kind = "MCF"
    /\ \E u \in MCFNodes, edge_id \in DOMAIN kept[1].csr.inside_edge_list, flow \in 1..MCFMaxCap :
          /\ u < kept[1].csr.num_nodes
          /\ kept[1].csr.start[u] <= edge_id /\ edge_id < kept[1].csr.start[u + 1]
          /\ flow <= residual_capacity(kept[1].csr.inside_edge_list[edge_id])
          /\ kept' = <<[kind |-> "MCF", csr |-> mcf_push_flow(kept[1].csr, u, edge_id, flow)]>>
    /\ observed' = [op |-> "push_flow"]
    /\ UNCHANGED <<mf, mcf, calls, source, sink, solver, status, budget>>

\* update_distances for a source and a sink of the graph
MFCSRUpdateDistances ==
    /\ kept # <<>> /\ kept[1].kind = "MF"
    /\ \E s \in Nodes, t \in Nodes :
          /\ s < kept[1].csr.num_nodes /\ t < kept[1].csr.num_nodes /\ s # t
          /\ kept' = <<[kind |-> "MF", csr |-> update_distances(kept[1].csr, s, t)]>>
          /\ observed' = [op |-> "update_distances", source |-> s, sink |-> t]
    /\ UNCHANGED <<mf, mcf, calls, source, sink, solver, status, budget>>

CSRNext ==
    \/ GraphNext
    \/ MFCSRBuild
    \/ MCFCSRBuild
    \/ MFCSRPushFlow
    \/ MCFCSRPushFlow

SpecCSR == MFInit /\ [][CSRNext]_vars

MFCSRNext ==
    \/ MFAddNode
    \/ MFAddDirectedEdge
    \/ MFCSRBuild
    \/ MFCSRPushFlow
    \/ MFCSRUpdateDistances

SpecMFCSR == MFInit /\ [][MFCSRNext]_vars

\* ---------------------------------- push-relabel on a seven-node network
\* with three nodes no run performs the alpha * num_nodes + 1 relabels that
\* start a global relabeling; the caller here builds a network of WideNodes
\* nodes with the arcs of WideArcs (from, to, upper), the capacities of the
\* first WideFree arcs being chosen freely
WideNodes == 7
WideFree == 6

WideArcs ==
    << <<0, 6, 2>>, <<6, 3, 1>>, <<2, 6, 1>>, <<4, 6, 1>>, <<0, 2, 1>>, <<3, 1, 1>>,
       <<4, 1, 1>>, <<0, 5, 1>>, <<0, 4, 2>>, <<6, 1, 1>>, <<5, 4, 1>> >>

RECURSIVE mf_add_nodes(_, _)
mf_add_nodes(g, n) == IF n = 0 THEN g ELSE mf_add_nodes(mf_add_node(g), n - 1)

RECURSIVE WideGraph(_, _, _)
WideGraph(g, upper, i) ==
    IF i > Len(WideArcs) THEN g
    ELSE WideGraph(mf_add_directed_edge(g, WideArcs[i][1], WideArcs[i][2],
                                        IF i <= WideFree THEN upper[i] ELSE WideArcs[i][3]),
                   upper, i + 1)

WideInit ==
    /\ \E upper \in [1..WideFree -> 1..MaxCap] :
          mf = WideGraph(mf_add_nodes(MFGraphDefault, WideNodes), upper, 1)
    /\ mcf = MCFGraphDefault
    /\ calls = <<>>
    /\ source = 0 /\ sink = 0
    /\ solver = "None"
    /\ status = "NotSolved"
    /\ kept = <<>>
    /\ budget = 1
    /\ observed = [op |-> "None"]

WideNext == PushRelabelFIFOSolve

SpecWide == WideInit /\ [][WideNext]_vars

\* ------------------------------------------- maximum flow: properties
\* sum of the flow on the edges leaving u (outgoing) or entering u
RECURSIVE MFFlowSum(_, _, _, _)
MFFlowSum(g, u, outgoing, i) ==
    IF i >= g.num_edges THEN 0
    ELSE LET edge == mf_get_edge(g, i)[1]
             end == IF outgoing THEN edge.from ELSE edge.to
         IN  (IF end = u THEN edge.flow ELSE 0) + MFFlowSum(g, u, outgoing, i + 1)

\* nodes reachable from S in the residual graph of the flow of g: an edge
\* is usable forwards when flow < upper and backwards when flow > 0
RECURSIVE MFResidualReach(_, _)
MFResidualReach(g, S) ==
    LET T == S \cup {v \in 0..(g.num_nodes - 1) :
                 \E i \in DOMAIN g.edges :
                    \/ g.edges[i].from \in S /\ g.edges[i].to = v /\ g.edges[i].flow < g.edges[i].upper
                    \/ g.edges[i].to \in S /\ g.edges[i].from = v /\ g.edges[i].flow > 0}
    IN  IF T = S THEN S ELSE MFResidualReach(g, T)

\* the graph as the caller built it, before any solve
MFInput(g) == [g EXCEPT !.edges = [i \in DOMAIN g.edges |-> [g.edges[i] EXCEPT !.flow = 0]]]

\* C1: after a maximum-flow solver returned Optimal, every node other than
\* source and sink has as much flow leaving it as entering it, as read from
\* the graph; for push-relabel the stranded excess is back at the source.
C1_Conservation ==
    status = "Optimal" =>
        \A u \in 0..(mf.num_nodes - 1) :
            (u # source /\ u # sink) => MFFlowSum(mf, u, TRUE, 0) = MFFlowSum(mf, u, FALSE, 0)

\* push-relabel saturated an arc source -> u of capacity 2 and had to give
\* one unit back: the edge ends with flow 1
C1_Witness ==
    /\ status = "Optimal" /\ solver = "PushRelabelFIFO"
    /\ \E i \in DOMAIN mf.edges :
          /\ mf.edges[i].from = source /\ mf.edges[i].to \notin {source, sink}
          /\ mf.edges[i].upper = 2 /\ mf.edges[i].flow = 1
          /\ MFFlowSum(mf, mf.edges[i].to, FALSE, 0) = 1

\* C2: after a maximum-flow solver returned Optimal, every edge read with
\* get_edge has 0 <= flow <= upper.
C2_Capacity ==
    status = "Optimal" =>
        \A i \in 0..(mf.num_edges - 1) :
            LET edge == mf_get_edge(mf, i)[1] IN 0 <= edge.flow /\ edge.flow <= edge.upper

\* capacity scaling left one edge saturated and another one partly used
C2_Witness ==
    /\ status = "Optimal" /\ solver = "CapacityScaling"
    /\ \E i \in DOMAIN mf.edges : mf.edges[i].upper = 2 /\ mf.edges[i].flow = 2
    /\ \E i \in DOMAIN mf.edges : mf.edges[i].upper = 2 /\ mf.edges[i].flow = 1

MCFNetOutflow(edges, f, u) ==
    VecSum([e \in DOMAIN edges |-> (IF edges[e].from = u THEN f[e] ELSE 0)
                                   - (IF edges[e].to = u THEN f[e] ELSE 0)], 0)

MCFFeasibleFlows(b, edges) ==
    {f \in [DOMAIN edges -> UNION {edges[e].lower..edges[e].upper : e \in DOMAIN edges}] :
        /\ \A e \in DOMAIN edges : edges[e].lower <= f[e] /\ f[e] <= edges[e].upper
        /\ \A u \in DOMAIN b : MCFNetOutflow(edges, f, u) = b[u]}

\* the flows the graph holds, as get_edge gives them
MCFFlows(g) == [e \in 0..(g.num_edges - 1) |-> mcf_get_edge(g, e)[1].flow]

\* a step in which a minimum-cost-flow solver ran on the graph
MCFSolveStep == status = "NotSolved" /\ status' # "NotSolved" /\ mf' = mf

\* C5: after a minimum-cost-flow solver returned Optimal, at every node the
\* get_edge flow on the edges the caller gave as leaving it minus that on
\* the edges given as entering it equals b of the node, edges with a lower
\* bound or a negative cost (stored reversed) included.
C5_SupplyConservation ==
    status = "Optimal" =>
        \A u \in 0..(mcf.num_nodes - 1) : MCFNetOutflow(calls, MCFFlows(mcf), u) = mcf.b[u]

\* an edge of negative cost, stored reversed, and an edge with a lower
\* bound both carry flow between a supply and a demand node
C5_Witness ==
    /\ status = "Optimal" /\ mcf.num_edges = 2
    /\ \E u \in DOMAIN mcf.b : mcf.b[u] > 0
    /\ \E e \in DOMAIN calls :
          /\ calls[e].cost < 0 /\ mcf.is_reversed[e] /\ calls[e].from # calls[e].to
          /\ mcf_get_edge(mcf, e)[1].flow > 0
    /\ \E e \in DOMAIN calls :
          /\ calls[e].lower > 0 /\ calls[e].from # calls[e].to
          /\ mcf_get_edge(mcf, e)[1].flow >= calls[e].lower

\* C6: after a minimum-cost-flow solver returned Optimal, every edge read
\* with get_edge has its flow between the lower and the upper the caller
\* gave to add_directed_edge.
C6_BoundsWithLower ==
    status = "Optimal" =>
        \A e \in DOMAIN calls :
            /\ mcf_get_edge(mcf, e) # <<>>
            /\ calls[e].lower <= mcf_get_edge(mcf, e)[1].flow
            /\ mcf_get_edge(mcf, e)[1].flow <= calls[e].upper

\* one edge given with bounds 1..2 is filled to its upper bound and another
\* one with bounds 1..2 is left at its lower bound
C6_Witness ==
    /\ status = "Optimal"
    /\ \E e \in DOMAIN calls :
          calls[e].lower = 1 /\ calls[e].upper = 2 /\ mcf_get_edge(mcf, e)[1].flow = 2
    /\ \E e \in DOMAIN calls :
          calls[e].lower = 1 /\ calls[e].upper = 2 /\ mcf_get_edge(mcf, e)[1].flow = 1

\* C7: on a balanced instance that admits a flow, whichever algorithm runs
\* returns Optimal and leaves the graph with the minimum_cost() that
\* successive shortest path leaves on the same graph, so all of them leave
\* the same value.
C7_SameMinimumCost ==
    [][(MCFSolveStep /\ ~is_unbalance(mcf) /\ MCFFeasibleFlows(mcf.b, calls) # {}) =>
           /\ status' = "Optimal"
           /\ minimum_cost(mcf') = minimum_cost(successive_shortest_path_solve(MCFCSRDefault, mcf).graph)]_vars

\* C8: solve on a graph whose supplies do not sum to zero returns Unbalanced
\* and leaves the node count, the edge count, the flows and the excesses
\* of the graph as they were before the call.
C8_UnbalancedBeforeAnyWork ==
    [][(MCFSolveStep /\ is_unbalance(mcf)) =>
           /\ status' = "Unbalanced"
           /\ mcf'.num_nodes = mcf.num_nodes /\ mcf'.num_edges = mcf.num_edges
           /\ mcf'.edges = mcf.edges /\ mcf'.excesses = mcf.excesses]_vars

\* C9: on a balanced instance a solver returned Infeasible exactly when the
\* excesses of the graph at return have a non-zero entry, and Optimal only
\* when all of them are zero.
C9_InfeasibleIffExcess ==
    (status # "NotSolved" /\ ~is_unbalance(mcf)) =>
        /\ status = "Infeasible" <=> (\E u \in DOMAIN mcf.excesses : mcf.excesses[u] # 0)
        /\ status = "Optimal" => (\A u \in DOMAIN mcf.excesses : mcf.excesses[u] = 0)

\* C10: on a balanced instance a solver returned Optimal when some flow
\* meets all the edge bounds and all the supplies, and Infeasible when none
\* does.
C10_OptimalIffFeasible ==
    (status # "NotSolved" /\ ~is_unbalance(mcf)) =>
        IF MCFFeasibleFlows(mcf.b, calls) # {} THEN status = "Optimal" ELSE status = "Infeasible"
\* ------------------------------------------------------------ C11 .. C20
\* a step that is a call of add_directed_edge on the maximum-flow graph, and
\* one on the minimum-cost-flow graph
MFAddDirectedEdgeStep ==
    /\ observed'.op = "MFAddDirectedEdge"
    /\ mf'.num_nodes = mf.num_nodes
    /\ (observed' # observed \/ mf' # mf)

MCFAddDirectedEdgeStep ==
    /\ observed'.op = "MCFAddDirectedEdge"
    /\ mcf'.num_nodes = mcf.num_nodes /\ mcf'.b = mcf.b
    /\ (observed' # observed \/ mcf' # mcf)

\* C11: in both graph builders a call of add_directed_edge with an endpoint
\* that is not a node (or, for minimum cost flow, with lower > upper) returns
\* None and leaves the graph as it was; an accepted call returns the old
\* num_edges, keeps the edges that were there, and get_edge is Some exactly
\* for the ids below num_edges.
C11_RejectedOrDense ==
    [][/\ MFAddDirectedEdgeStep =>
            /\ IF observed'.valid
               THEN /\ observed'.ret = <<mf.num_edges>>
                    /\ mf'.num_edges = mf.num_edges + 1
                    /\ \A id \in 0..(mf.num_edges - 1) : mf_get_edge(mf', id) = mf_get_edge(mf, id)
               ELSE observed'.ret = <<>> /\ mf' = mf
            /\ \A id \in 0..MaxEdges : (mf_get_edge(mf', id) # <<>>) <=> (id < mf'.num_edges)
       /\ MCFAddDirectedEdgeStep =>
            /\ IF observed'.valid
               THEN /\ observed'.ret = <<mcf.num_edges>>
                    /\ mcf'.num_edges = mcf.num_edges + 1
                    /\ \A id \in 0..(mcf.num_edges - 1) : mcf_get_edge(mcf', id) = mcf_get_edge(mcf, id)
               ELSE observed'.ret = <<>> /\ mcf' = mcf /\ calls' = calls
            /\ \A id \in 0..MCFMaxEdges : (mcf_get_edge(mcf', id) # <<>>) <=> (id < mcf'.num_edges)]_vars

\* a call was refused on a minimum-cost-flow graph that already has an edge
C11_Witness ==
    /\ observed.op = "MCFAddDirectedEdge"
    /\ ~observed.valid /\ observed.ret = <<>>
    /\ mcf.num_edges = 1 /\ mcf_get_edge(mcf, 0) # <<>> /\ mcf_get_edge(mcf, 1) = <<>>

\* C12: get_edge of the id of an accepted add_directed_edge call reports the
\* from, to, lower, upper and cost of that call, whatever the sign of the
\* cost and the lower bound, before a solve and after any solve.
C12_GetEdgeRoundTrip ==
    \A e \in DOMAIN calls :
        /\ mcf_get_edge(mcf, e) # <<>>
        /\ LET edge == mcf_get_edge(mcf, e)[1]
           IN  /\ edge.from = calls[e].from /\ edge.to = calls[e].to
               /\ edge.lower = calls[e].lower /\ edge.upper = calls[e].upper
               /\ edge.cost = calls[e].cost

\* a solver ran on a graph with an edge of negative cost and a non-zero
\* lower bound, between two different nodes, and one of positive cost
C12_Witness ==
    /\ status = "Optimal" /\ solver = "OutOfKilter"
    /\ \E e \in DOMAIN calls :
          /\ calls[e].cost < 0 /\ calls[e].lower > 0 /\ calls[e].from # calls[e].to
          /\ mcf_get_edge(mcf, e)[1].from = calls[e].from
    /\ \E e \in DOMAIN calls : calls[e].cost > 0 /\ calls[e].upper > calls[e].lower

SecondSolveStep == status \in Returned /\ budget' = budget - 1

\* what a caller reads from a graph: every edge as get_edge reports it, the
\* excesses and the objective value
MCFReading(g) ==
    [edges |-> [e \in DOMAIN g.edges |-> mcf_get_edge(g, e)],
     excesses |-> g.excesses,
     minimum_cost |-> minimum_cost(g)]

\* C15: a fresh solver object run a second time on a graph that was already
\* solved returns the status of the first run and leaves the per-edge
\* flows, the excesses and the objective value as the first run left them
C15_Idempotent ==
    [][(SecondSolveStep /\ ~observed'.reused) =>
          (status' = status /\ MCFReading(mcf') = MCFReading(mcf))]_vars

\* what solve of the network simplex method called name gives on graph g when
\* the solver object is freshly constructed
FreshSolve(name, g) ==
    {primal_network_simplex_solve(SpanningTreeStructureDefault, pivot, g) :
        pivot \in {p \in PivotRules(g.num_edges) : name = "PrimalNetworkSimplex" \o p.kind}}
    \cup {dual_network_simplex_solve(DualNetworkSimplexDefault, pivot, g) :
        pivot \in {p \in PivotRules(g.num_edges) : name = "DualNetworkSimplex" \o p.kind}}
    \cup {parametric_network_simplex_solve(ParametricNetworkSimplexDefault, g) :
        x \in {n \in {name} : n = "Parametric"}}

\* C14: a second solve call on the solver object that made the first one
\* gives the status and the per-edge flows a freshly constructed solver
\* gives on that graph
C14_Reusable ==
    [][(SecondSolveStep /\ observed'.reused) =>
          \E r \in FreshSolve(solver', mcf) :
              status' = r.status /\ MCFFlows(mcf') = MCFFlows(r.graph)]_vars

\* the calls of find_entering_edge the last solve call made (the parametric
\* method and the successive shortest path method have no pivot rule)
PivotCalls ==
    IF observed.op = "solve" /\ solver \notin {"Parametric", "SuccessiveShortestPath"} THEN observed.trace
    ELSE <<>>

\* C16: whatever the pivot rule and the violation function, a call of
\* find_entering_edge that returns Some(e) names an arc of strictly positive
\* violation in the tree state of the call, and a call that returns None
\* leaves no arc of positive violation
C16_PivotContract ==
    \A k \in DOMAIN PivotCalls :
        LET call == PivotCalls[k]
        IN  IF call.ret = <<>>
            THEN \A edge_id \in DOMAIN call.violation : call.violation[edge_id] <= 0
            ELSE call.ret[1] \in DOMAIN call.violation /\ call.violation[call.ret[1]] > 0

\* C17: on a graph with capacities of 0 or more, with or without edges, and
\* a source and a sink that are distinct nodes of the graph, solve of every
\* maximum-flow solver returns, without a panic, with Optimal
C17_SolveReturnsOptimal ==
    (/\ status # "NotSolved" /\ mf.num_nodes > 0
     /\ source # sink /\ source < mf.num_nodes /\ sink < mf.num_nodes) => status = "Optimal"

\* the graph a kept CSR was built from
CSRGraph == IF kept[1].kind = "MF" THEN mf ELSE mcf

\* arc i lies in the adjacency range of node u
InRange(c, u, i) == c.start[u] <= i /\ i < c.start[u + 1]

\* C18: in both CSRs, after build and after any pushes, every arc and its
\* reverse name each other, differ, have the same upper and flows that add
\* up to it; the range of a node holds the forward arcs of the edges that
\* leave it and the reverse arcs of the edges that enter it, and nothing
\* else, self-loops and parallel edges included
C18_CSRInvariant ==
    (kept # <<>> /\ observed.op \in {"build", "push_flow"}) =>
        LET c == kept[1].csr
            g == CSRGraph
            arcs == c.inside_edge_list
            fwd(k) == c.edge_index_to_inside_edge_index[k]
        IN  /\ \A e \in DOMAIN arcs :
                  /\ arcs[e].rev \in DOMAIN arcs
                  /\ arcs[arcs[e].rev].rev = e
                  /\ arcs[e].rev # e
                  /\ arcs[arcs[e].rev].upper = arcs[e].upper
                  /\ arcs[e].flow + arcs[arcs[e].rev].flow = arcs[e].upper
            /\ VecLen(arcs) = 2 * g.num_edges
            /\ g.num_nodes > 0 =>
                  /\ c.start[0] = 0 /\ c.start[g.num_nodes] = VecLen(arcs)
                  /\ \A u \in 0..(g.num_nodes - 1) : c.start[u] <= c.start[u + 1]
            /\ \A k \in DOMAIN g.edges :
                  /\ fwd(k) \in DOMAIN arcs
                  /\ InRange(c, g.edges[k].from, fwd(k))
                  /\ arcs[fwd(k)].to = g.edges[k].to
                  /\ arcs[fwd(k)].upper = g.edges[k].upper
                  /\ InRange(c, g.edges[k].to, arcs[fwd(k)].rev)
                  /\ arcs[arcs[fwd(k)].rev].to = g.edges[k].from
            /\ Cardinality({fwd(k) : k \in DOMAIN g.edges}
                            \cup {arcs[fwd(k)].rev : k \in DOMAIN g.edges}) = VecLen(arcs)

C18_Witness ==
    /\ kept # <<>> /\ observed.op = "push_flow"
    /\ \E k \in DOMAIN CSRGraph.edges : CSRGraph.edges[k].from = CSRGraph.edges[k].to
    /\ \E k, l \in DOMAIN CSRGraph.edges :
          k # l /\ CSRGraph.edges[k].from = CSRGraph.edges[l].from /\ CSRGraph.edges[k].to = CSRGraph.edges[l].to
                /\ CSRGraph.edges[k].from # CSRGraph.edges[k].to
    /\ \E e \in DOMAIN kept[1].csr.inside_edge_list :
          kept[1].csr.inside_edge_list[e].flow \notin {0, kept[1].csr.inside_edge_list[e].upper}

\* the nodes with a path of at most k arcs of positive residual capacity to
\* node t in CSR c
RECURSIVE ResidualWithin(_, _, _)
ResidualWithin(c, t, k) ==
    IF k = 0 THEN {t}
    ELSE LET near == ResidualWithin(c, t, k - 1)
         IN  near \cup {u \in 0..(c.num_nodes - 1) :
                           \E i \in DOMAIN c.inside_edge_list :
                               /\ InRange(c, u, i)
                               /\ residual_capacity(c.inside_edge_list[i]) > 0
                               /\ c.inside_edge_list[i].to \in near}

\* the number of arcs of a shortest such path from u to t, num_nodes when
\* there is none
ResidualDistance(c, u, t) ==
    IF u \in ResidualWithin(c, t, c.num_nodes - 1)
    THEN CHOOSE k \in 0..(c.num_nodes - 1) :
            /\ u \in ResidualWithin(c, t, k)
            /\ \A j \in 0..(k - 1) : u \notin ResidualWithin(c, t, j)
    ELSE c.num_nodes

\* C19: after update_distances(source, sink) the distance of every node is
\* the number of arcs of a shortest path to the sink over arcs of positive
\* residual capacity, and num_nodes exactly when there is no such path
C19_DistancesAreShortest ==
    (kept # <<>> /\ observed.op = "update_distances") =>
        \A u \in 0..(kept[1].csr.num_nodes - 1) :
            kept[1].csr.distances[u] = ResidualDistance(kept[1].csr, u, observed.sink)

\* the arcs prev records from node v back to src, last arc first
RECURSIVE PrevPath(_, _, _, _)
PrevPath(prev, src, v, fuel) ==
    IF v = src \/ fuel = 0 THEN <<>>
    ELSE <<prev[v][2]>> \o PrevPath(prev, src, prev[v][1], fuel - 1)

\* C20: in every iteration of EdmondsKarp::solve the path prev records from
\* source to sink has the fewest arcs among the paths of positive residual
\* capacity of the residual graph of that iteration, and the amount pushed
\* is the least residual capacity on the path
C20_ShortestAugmentingPath ==
    (observed.op = "solve" /\ solver = "EdmondsKarp") =>
        \A k \in DOMAIN observed.trace :
            LET it == observed.trace[k]
                path == PrevPath(it.prev, source, sink, it.csr.num_nodes)
                residual(i) == residual_capacity(it.csr.inside_edge_list[path[i]])
            IN  /\ Len(path) = ResidualDistance(it.csr, source, sink)
                /\ \A i \in DOMAIN path : it.delta <= residual(i)
                /\ \E i \in DOMAIN path : it.delta = residual(i)

\* ---------------------------------------------- push-relabel: labels
PushRelabelRun ==
    /\ observed.op = "solve"
    /\ solver \in {"PushRelabelFIFO", "PushRelabelFIFOGlobal"}

LabelsValid(it, src) ==
    LET c == it.csr
        n == c.num_nodes
    IN  /\ c.distances[src] = n
        /\ \A u \in 0..(n - 1) : \A i \in c.start[u]..(c.start[u + 1] - 1) :
              residual_capacity(c.inside_edge_list[i]) > 0
                  => c.distances[u] <= c.distances[c.inside_edge_list[i].to] + 1
        /\ \A k \in 0..n :
              it.distance_count[k] = Cardinality({u \in 0..(n - 1) : c.distances[u] = k})

\* C21: each time the main loop of PushRelabelFIFO.solve tests its condition,
\* for alpha = 0 and for alpha > 0 alike, the labels are valid: the source
\* has distance num_nodes, distances[u] <= distances[v] + 1 on every arc u->v
\* with positive residual capacity, and distance_count[k] is the number of
\* nodes with distance k
C21_LabelsValid ==
    PushRelabelRun => \A k \in DOMAIN observed.trace : LabelsValid(observed.trace[k], source)

\* ------------------------------------- network simplex: the tree structure
PivotRuleNames == {"BestEligibleArc", "FirstEligibleArc", "BlockSearch", "CandidateList", "AlteringCandidateList"}

PrimalNames == {"PrimalNetworkSimplex" \o kind : kind \in PivotRuleNames}

DualNames == {"DualNetworkSimplex" \o kind : kind \in PivotRuleNames}

\* the tree structures of the last network simplex run: the one the initial
\* tree was built in, then the one each pivot left
Trees ==
    IF observed.op = "solve" /\ solver \in PrimalNames \cup DualNames \cup {"Parametric"}
    THEN [k \in DOMAIN observed.trace |-> observed.trace[k].st]
    ELSE <<>>

RECURSIVE Up(_, _, _)
\* u and the nodes met by following parent from u, at most fuel of them
Up(st, u, fuel) ==
    IF fuel = 0 \/ u \notin DOMAIN st.nodes THEN {}
    ELSE {u} \cup Up(st, st.nodes[u].parent, fuel - 1)

\* the nodes of the subtree of u
Subtree(st, u) == {v \in DOMAIN st.nodes : u \in Up(st, v, st.num_nodes)}

RECURSIVE Follow(_, _, _)
\* the first k nodes of the thread that starts at u
Follow(st, u, k) ==
    IF k = 0 \/ u \notin DOMAIN st.next_node_dft THEN <<>>
    ELSE <<u>> \o Follow(st, st.next_node_dft[u], k - 1)

ThreadConsistent(st) ==
    LET n == st.num_nodes
        order == Follow(st, st.root, n)
        pos(u) == CHOOSE i \in DOMAIN order : order[i] = u
    IN  /\ Len(order) = n
        /\ {order[i] : i \in DOMAIN order} = DOMAIN st.nodes
        /\ st.next_node_dft[order[n]] = st.root
        /\ \A u \in DOMAIN st.nodes :
              /\ st.prev_node_dft[u] \in DOMAIN st.nodes /\ st.next_node_dft[st.prev_node_dft[u]] = u
              /\ st.prev_node_dft[st.next_node_dft[u]] = u
        /\ \A i \in 2..n : st.nodes[order[i]].parent \in Up(st, order[i - 1], n)
        /\ \A u \in DOMAIN st.nodes :
              /\ st.num_successors[u] = Cardinality(Subtree(st, u))
              /\ pos(u) + Cardinality(Subtree(st, u)) - 1 \in DOMAIN order
              /\ st.last_descendent_dft[u] = order[pos(u) + Cardinality(Subtree(st, u)) - 1]

\* C22: in the tree structure the initial tree was built in and in the one
\* every pivot of the Primal, Dual and Parametric network simplex leaves,
\* next_node_dft and prev_node_dft are inverse of each other, the thread from
\* root visits every node once in depth-first preorder and returns to root,
\* num_successors[u] is the size of the subtree of u and
\* last_descendent_dft[u] the last node of that subtree in the thread
C22_ThreadConsistent == \A k \in DOMAIN Trees : ThreadConsistent(Trees[k])

\* the ids of the arcs of the tree
TreeArcs(st) == {e \in DOMAIN st.edges : st.edges[e].state = "Tree"}

TreeArcsReducedCostZero(st) == \A e \in TreeArcs(st) : st_reduced_cost(st, st.edges[e]) = 0

\* the pivots of the run that exchanged two arcs: the index of the tree after
\* the pivot, with the arc that left and the arc that entered
Exchanges ==
    {x \in [k : DOMAIN Trees, leaving : UNION {DOMAIN Trees[k].edges : k \in DOMAIN Trees},
            entering : UNION {DOMAIN Trees[k].edges : k \in DOMAIN Trees}] :
        /\ x.k > 1
        /\ TreeArcs(Trees[x.k - 1]) \ TreeArcs(Trees[x.k]) = {x.leaving}
        /\ TreeArcs(Trees[x.k]) \ TreeArcs(Trees[x.k - 1]) = {x.entering}}

\* the nodes re_rooting works on in a pivot from the tree before: the subtree
\* the leaving arc cut off, or, in the primal and the dual method, the rest
\* when that subtree holds half the nodes
ReRooted(before, leaving) ==
    LET edge == before.edges[leaving]
        t2_now_root == IF before.nodes[edge.from].parent = edge.to /\ before.nodes[edge.from].parent_edge_id = leaving
                       THEN edge.from ELSE edge.to
        t2 == Subtree(before, t2_now_root)
    IN  IF solver # "Parametric" /\ Cardinality(t2) * 2 >= before.num_nodes
        THEN DOMAIN before.nodes \ t2 ELSE t2

PotentialsShifted(before, after, leaving, entering) ==
    LET moved == ReRooted(before, leaving)
        edge == before.edges[entering]
        delta == IF edge.from \in moved THEN st_reduced_cost(before, edge) ELSE -st_reduced_cost(before, edge)
    IN  \A u \in DOMAIN before.nodes :
            after.nodes[u].potential = before.nodes[u].potential + (IF u \in moved THEN delta ELSE 0)

\* C23: after the initial tree and after every pivot of the primal, dual and
\* parametric network simplex every Tree arc has reduced cost 0, and a pivot
\* that exchanges two arcs adds the signed reduced cost of the entering arc
\* to the potential of exactly the nodes of the re-rooted subtree
C23_TreeArcsReducedCostZero ==
    /\ \A k \in DOMAIN Trees : TreeArcsReducedCostZero(Trees[k])
    /\ \A x \in Exchanges : PotentialsShifted(Trees[x.k - 1], Trees[x.k], x.leaving, x.entering)

\* a pivot exchanged two arcs and moved the potentials of some nodes, not all
C23_Witness ==
    \E x \in Exchanges :
        /\ st_reduced_cost(Trees[x.k - 1], Trees[x.k - 1].edges[x.entering]) # 0
        /\ \E u \in DOMAIN Trees[x.k].nodes : Trees[x.k].nodes[u].potential = Trees[x.k - 1].nodes[u].potential

\* the tree structure the solver is left with at the end of run
LastTree == IF solver \in PrimalNames THEN kept[1] ELSE kept[1].st

\* every arc outside the tree carries the flow of the bound its state names
NonTreeArcsAtBound(st) ==
    \A e \in DOMAIN st.edges :
        /\ st.edges[e].state = "Lower" => st.edges[e].flow = 0
        /\ st.edges[e].state = "Upper" => st.edges[e].flow = st.edges[e].upper

SpanningTree(st) ==
    /\ st.nodes[st.root].parent = NONE
    /\ st.nodes[st.root].parent_edge_id = NONE
    /\ \A u \in DOMAIN st.nodes : st.root \in Up(st, u, st.num_nodes)
    /\ \A u \in DOMAIN st.nodes \ {st.root} :
          /\ st.nodes[u].parent_edge_id \in TreeArcs(st)
          /\ {st.edges[st.nodes[u].parent_edge_id].from, st.edges[st.nodes[u].parent_edge_id].to}
                = {u, st.nodes[u].parent}
    /\ Cardinality(TreeArcs(st)) = st.num_nodes - 1

\* C25: in the primal, dual and parametric network simplex, after the initial
\* tree is built and after every pivot, the arcs in state Tree form a spanning
\* tree of all nodes of the extended graph: root has no parent and no parent
\* edge and following parent from any node reaches root
C25_SpanningTree == \A k \in DOMAIN Trees : SpanningTree(Trees[k])

\* ---------------------------------------- network simplex: the pivot rules
\* the calls of find_entering_edge of a run with the rule of the given kind
RuleCalls(kind) ==
    IF observed.op = "solve" /\ solver \in {"PrimalNetworkSimplex" \o kind, "DualNetworkSimplex" \o kind}
    THEN observed.trace ELSE <<>>

\* the arcs in the first current_size slots of the list of a rule
Listed(pv) == {pv.candidates[i] : i \in 0..(pv.current_size - 1)}

\* the violation the scan that rebuilds the list computes for an arc
ScanViolation(st, edge_id) ==
    IF st.edges[edge_id].state = "Upper" THEN st_reduced_cost(st, st.edges[edge_id])
    ELSE -st_reduced_cost(st, st.edges[edge_id])

\* the call rebuilt the list: only the rebuild leaves minor_count at 1
Rebuilt(c) == c.rule_after.minor_count = 1

\* the call began with a minor iteration
MinorTried(c) == c.rule.current_size > 0 /\ c.rule.minor_count < c.rule.minor_count_limit

RebuiltListHoldsScannedArcs(c) ==
    Rebuilt(c) =>
        \A edge_id \in Listed(c.rule_after) :
            edge_id \in DOMAIN c.st.edges /\ ScanViolation(c.st, edge_id) > 0

MinorIterationExaminesList(c) ==
    LET eligible == {edge_id \in Listed(c.rule) \cap DOMAIN c.st.edges : c.violation[edge_id] > 0}
    IN  MinorTried(c) =>
            /\ Listed(c.rule) \subseteq DOMAIN c.st.edges
            /\ eligible = {} => Rebuilt(c)
            /\ eligible # {} =>
                  /\ c.ret # <<>> /\ c.ret[1] \in eligible
                  /\ \A edge_id \in eligible : c.violation[edge_id] <= c.violation[c.ret[1]]
                  /\ Listed(c.rule_after) = eligible

\* C26: in CandidateListPivotRule, after the list is rebuilt every entry
\* candidates[0..current_size) is the id of an arc that had positive
\* violation during the rebuild scan, and a minor iteration examines exactly
\* the arcs of the list, drops the ones that are no longer eligible and
\* returns the one with maximum violation
C26_CandidateList ==
    \A k \in DOMAIN RuleCalls("CandidateList") :
        /\ RebuiltListHoldsScannedArcs(RuleCalls("CandidateList")[k])
        /\ MinorIterationExaminesList(RuleCalls("CandidateList")[k])

\* the list the altering candidate list selects from holds the retained
\* candidates that are still eligible, with the violation of the call, and
\* eligible arcs the scan added
ListedAtCall(c) ==
    /\ \A i \in DOMAIN c.listed :
          /\ c.listed[i][1] \in DOMAIN c.st.edges
          /\ c.listed[i][2] > 0
          /\ \/ c.listed[i][1] \in {c.rule.candidates[j][1] : j \in 0..(c.rule.current_size - 1)}
                /\ c.listed[i][2] = c.violation[c.listed[i][1]]
             \/ c.listed[i][2] = ScanViolation(c.st, c.listed[i][1])
    /\ \A j \in 0..(c.rule.current_size - 1) :
          c.violation[c.rule.candidates[j][1]] > 0
              => \E i \in DOMAIN c.listed : c.listed[i][1] = c.rule.candidates[j][1]

ReturnsBestOfList(c) ==
    c.listed # <<>> =>
        /\ c.ret # <<>>
        /\ \E i \in DOMAIN c.listed :
              /\ c.listed[i][1] = c.ret[1]
              /\ \A j \in DOMAIN c.listed : c.listed[j][2] <= c.listed[i][2]

\* the candidates kept for later calls are at most head_length, they are
\* listed ones, and each is among the best of the list: the listed entries
\* of larger violation are no more than the returned and the other kept ones
KeepsNextBest(c) ==
    LET kept_ones == [i \in 1..c.rule_after.current_size |-> c.rule_after.candidates[i - 1]]
    IN  /\ c.rule_after.current_size <= c.rule_after.head_length
        /\ c.rule_after.current_size <= Len(c.listed)
        /\ \A i \in DOMAIN kept_ones : \E j \in DOMAIN c.listed : c.listed[j] = kept_ones[i]
        /\ c.listed # <<>> => c.rule_after.current_size = Min(Len(c.listed), c.rule_after.head_length + 1) - 1
        /\ \A i \in DOMAIN kept_ones :
              Cardinality({j \in DOMAIN c.listed : c.listed[j][2] > kept_ones[i][2]}) <= c.rule_after.current_size

WithinSlots(c) ==
    /\ Len(c.listed) <= c.rule.head_length + c.rule.block_size
    /\ DOMAIN c.rule_after.candidates = 0..(c.rule.head_length + c.rule.block_size - 1)

\* C27: AlteringCandidateListPivotRule.find_entering_edge returns the arc of
\* maximum violation among the arcs of its candidate list at the time of the
\* call (the retained candidates that are still eligible and the eligible
\* arcs the block scan added), keeps at most head_length of the others for
\* later calls, and never writes past the head_length + block_size slots
C27_AlteringCandidateList ==
    /\ \A k \in DOMAIN RuleCalls("AlteringCandidateList") :
          /\ ListedAtCall(RuleCalls("AlteringCandidateList")[k])
          /\ ReturnsBestOfList(RuleCalls("AlteringCandidateList")[k])
          /\ KeepsNextBest(RuleCalls("AlteringCandidateList")[k])
          /\ WithinSlots(RuleCalls("AlteringCandidateList")[k])
    /\ solver = "PrimalNetworkSimplexAlteringCandidateList" => status # "Panic"

\* ------------------------------------ successive shortest path: the rounds
Rounds == IF observed.op = "solve" /\ solver = "SuccessiveShortestPath" THEN observed.trace ELSE <<>>

\* the internal arcs of c that leave node u
ArcsFrom(c, u) == c.start[u]..(c.start[u + 1] - 1)

ResidualReducedCostsNonNegative(c) ==
    \A u \in 0..(c.num_nodes - 1) :
        \A i \in ArcsFrom(c, u) :
            residual_capacity(c.inside_edge_list[i]) > 0 => reduced_cost(c, u, c.inside_edge_list[i]) >= 0

RECURSIVE PathBack(_, _, _, _)
\* the arcs prev names from v back to the node without a predecessor, and
\* that node
PathBack(c, prev, v, fuel) ==
    IF prev[v] = <<>> \/ fuel = 0 THEN [arcs |-> {}, v |-> v]
    ELSE LET back == PathBack(c, prev, c.inside_edge_list[c.inside_edge_list[prev[v][1]].rev].to, fuel - 1)
         IN  [arcs |-> back.arcs \cup {prev[v][1]}, v |-> back.v]

AugmentationWithinBounds(r) ==
    LET delta == r.before.excesses[r.s] - r.csr.excesses[r.s]
        path == PathBack(r.before, r.prev, r.t, r.before.num_nodes)
    IN  /\ path.v = r.s /\ path.arcs # {}
        /\ delta > 0
        /\ delta <= r.before.excesses[r.s]
        /\ delta <= -r.before.excesses[r.t]
        /\ r.csr.excesses[r.t] = r.before.excesses[r.t] + delta
        /\ \A i \in path.arcs :
              /\ delta <= residual_capacity(r.before.inside_edge_list[i])
              /\ r.csr.inside_edge_list[i].flow = r.before.inside_edge_list[i].flow + delta

\* C28: in SuccessiveShortestPath.solve, after the potential update of a
\* round and after its augmentation, every internal arc with positive
\* residual capacity has reduced cost >= 0; each augmentation pushes a
\* strictly positive amount that is at most the excess of s, the deficit of
\* t and every residual capacity on the path
C28_ReducedCostsNonNegative ==
    \A k \in DOMAIN Rounds :
        /\ ResidualReducedCostsNonNegative(Rounds[k].before)
        /\ ResidualReducedCostsNonNegative(Rounds[k].csr)
        /\ AugmentationWithinBounds(Rounds[k])

\* a round after the first that starts with potentials that are not all
\* zero and with residual capacity on an arc of negative cost, the reverse
\* of an arc an earlier round used
C28_Witness ==
    \E k \in DOMAIN Rounds :
        /\ k > 1
        /\ \E u \in DOMAIN Rounds[k].before.potentials : Rounds[k].before.potentials[u] # 0
        /\ \E i \in DOMAIN Rounds[k].before.inside_edge_list :
              /\ Rounds[k].before.inside_edge_list[i].cost < 0
              /\ residual_capacity(Rounds[k].before.inside_edge_list[i]) > 0

\* ------------------------------------- primal network simplex: feasibility
PrimalTrees == IF solver \in PrimalNames THEN Trees ELSE <<>>

\* flow can be moved by a positive amount from every node to the root along
\* the tree: the tree arc of a node that points to the parent is not full
\* and the one that points to the node is not empty
StronglyFeasible(st) ==
    \A u \in DOMAIN st.nodes \ {st.root} :
        /\ st.nodes[u].parent_edge_id \in DOMAIN st.edges
        /\ LET edge == st.edges[st.nodes[u].parent_edge_id]
           IN  IF edge.from = u THEN edge.flow < edge.upper ELSE edge.flow > 0

FlowsWithinBounds(st) == \A e \in DOMAIN st.edges : 0 <= st.edges[e].flow /\ st.edges[e].flow <= st.edges[e].upper

\* C29: in PrimalNetworkSimplex the initial tree of artificial arcs is
\* strongly feasible and every pivot keeps it so (a tree arc directed toward
\* the root has flow < upper, a tree arc directed away from the root has
\* flow > 0), and all arc flows stay within 0..upper after every pivot
C29_StronglyFeasible ==
    \A k \in DOMAIN PrimalTrees : StronglyFeasible(PrimalTrees[k]) /\ FlowsWithinBounds(PrimalTrees[k])


\* C30: PrimalNetworkSimplex.run terminates: from every state where run is
\* at work, after finitely many pivots (degenerate ones and ones that only
\* flip the entering arc included) a call of find_entering_edge returns
\* None with no arc of positive violation, and solve returns Optimal or
\* Infeasible
RunReturned ==
    /\ status \in {"Optimal", "Infeasible"}
    /\ observed.call # <<>>
    /\ observed.call[1].ret = <<>>
    /\ \A edge_id \in DOMAIN observed.call[1].violation : observed.call[1].violation[edge_id] <= 0

C30_RunTerminates == (status = "Running") ~> RunReturned

C30_Witness == RunReturned /\ observed.degenerate /\ observed.flipped
====
